---- MODULE Spec2Model ----
(***************************************************************************)
(* HarborMaster: the sync orchestration engine of pkg/manager              *)
(* (RepositoryManager.Sync, SyncOne, syncRepository, updateLockFile), the  *)
(* lock file of pkg/lockfile and the two transport backends of             *)
(* pkg/downloader, as far as the orchestrator observes them.               *)
(*                                                                         *)
(* One process, as cmd/harbormaster runs it: a RepositoryManager is        *)
(* constructed over the loaded configuration and lock file (Init) and      *)
(* receives one call, Sync or SyncOne.  Sync runs one goroutine per        *)
(* repository under a counting semaphore; every goroutine step is one      *)
(* action.  A Go panic (slice bounds out of range, close of a closed       *)
(* channel) ends the whole process: phase = "crashed" and no further step  *)
(* is possible.                                                            *)
(***************************************************************************)
EXTENDS Integers, Sequences, FiniteSets, TLC

VARIABLES
    catalog,      \* m.config.Repositories
    hasLockFile,  \* m.lockFile != nil
    lockFile,     \* m.lockFile.Entries: repository name -> LockEntry
    locked,       \* m.locked
    concurrent,   \* m.concurrent
    uiDone,       \* the progress manager's done channel has been closed
    remote,       \* the world: what each source currently serves (tip / content digest)
    disk,         \* the world: resolved reference of each destination, "" when absent
    phase,        \* "idle" | "syncing" | "returned" | "crashed"
    call,         \* the call in progress or last made: "none" | "Sync" | "SyncOne" |
                  \* "Remove"
    callErr,      \* the error that call returned to its caller, "" for nil
    repos,        \* the repository list the call resolved (Sync: repos; SyncOne: one)
    pc,           \* position of each repository task: "waiting" | "transport" |
                  \* "finished" | "done" | "panicked"
    sem,          \* number of permits held (len of the semaphore channel)
    results,      \* the result slot array of the call
    report,       \* the SyncResult the last Sync returned
    lockAtCall,   \* history: lockFile when the call started
    slotWrites,   \* history: number of writes to each result slot
    invoked,      \* history: slots whose transport was invoked in this call
    resolved,     \* history: the reference each slot's transport resolved to, "" if none
    notified,     \* history: the phases each slot's task passed to m.ui.SendProgress
    catalogAtCall,\* history: catalog when the process started
    prevRuns,     \* history: what the earlier runs over this working directory returned
    filter,       \* FilterSpec: the Filter the caller passes to Sync
    target,       \* CatalogSpec: the name the caller passes to Remove
    job,          \* StreamSpec: the transport call under way and its environment
    producer,     \* StreamSpec: position of the transport's goroutine
    attempt,      \* StreamSpec: the retry loop's variable
    attempts,     \* StreamSpec: number of calls to downloadFile[WithProgress]
    progress,     \* StreamSpec: the buffered progress channel, oldest event first
    closes,       \* StreamSpec: number of times the channel has been closed
    received,     \* StreamSpec: the phases the consumer has read off the channel
    lines,        \* StreamSpec: number of byte/line progress events offered so far
    ret,          \* StreamSpec: how the transport ended: "" | "ok" | "error"
    lastErr,      \* StreamSpec: the error of the step that failed last
    surfaced,     \* StreamSpec: the error the call surfaced (returned, or carried
                  \* by its failed event)
    query,        \* LockSpec: the arguments of the last ShouldUpdate call
    answer,       \* LockSpec: what that call returned, "none" before any call
    msgChan,      \* SinkSpec: pm.msgChan, the sink's buffered channel, oldest first
    pending,      \* SinkSpec: per task, the transport outcome and the SendProgress
                  \* calls the task makes before it returns
    exitCode,     \* CommandSpec: the exit code of hm sync, -1 while it runs
    lockSaved,    \* CommandSpec: saveLockFile has written the lock file
    stream,       \* DrainSpec: the events of the progress stream syncRepository reads
    cfgProjects,  \* ConfigSpec: m.config.Projects
    ops,          \* ConfigSpec, OpsSpec: number of manager calls that have returned
    sinkErrs      \* DrainSpec: the Error field of each message passed to the sink

syncVars == <<catalog, hasLockFile, lockFile, locked, concurrent, uiDone, remote, disk,
              phase, call, callErr, repos, pc, sem, results, report,
              lockAtCall, slotWrites, invoked, resolved, notified>>

\* the state only the other specifications of this module change
callVars == <<catalogAtCall, prevRuns, filter, target>>

streamVars == <<job, producer, attempt, attempts, progress, closes, received, lines, ret,
               lastErr, surfaced>>

probeVars == <<query, answer, msgChan, pending, exitCode, lockSaved, stream,
               cfgProjects, ops, sinkErrs>>

auxVars == <<callVars, streamVars, probeVars>>

vars == <<syncVars, auxVars>>

managerVars == <<catalog, hasLockFile, locked, concurrent>>

----------------------------------------------------------------------------
(* Bounds of the model *)

\* WithConcurrency(n) is explored for n in 0..MaxConcurrency
MaxConcurrency == 2

\* longest Filter.Names list explored
MaxNames == 1

\* number of sources that have moved on since the lock file was written
MaxMoves == 1

\* longest Filter.Names list FilterSpec explores
MaxFilterNames == 2

\* number of runs over one working directory RerunSpec explores
MaxRuns == 2

\* longest result list ReportSpec hands to NewSyncResult
MaxResults == 3

\* NextCall lets the caller make MaxOps further calls after the first
MaxOps == 2

\* longest progress stream DrainSpec hands to the drain loop
MaxEvents == 3

\* HTTP.RetryAttempts is explored in 0..MaxRetryAttempts
MaxRetryAttempts == 3

\* number of byte/line progress events one transport call offers at most
MaxLines == 9

\* number of progress lines of one stream that SinkSpec's task forwards
MaxForwarded == 100

----------------------------------------------------------------------------
(* Program constants *)

\* NewRepositoryManager: concurrent: 4
DefaultConcurrency == 4

\* make(chan types.ProgressUpdate, 10)
ProgressBuffer == 10

\* msgChan: make(chan types.ProgressMsg, 100)
SinkBuffer == 100

\* syncRepository: targetSHA[:8], sha[:8]
ShaPrefixLen == 8

\* config.DefaultBranch
DefaultBranch == "main"

----------------------------------------------------------------------------
(* The world the transports talk to *)

\* revision ids a branch tip (or an HTTP body digest) can have
Sha1 == "1111111111111111111111111111111111111111"
Sha2 == "2222222222222222222222222222222222222222"
\* the revision the tag "v1" names, and the one the pin "c0ffee" names
ShaTag == "7a97a97a97a97a97a97a97a97a97a97a97a97a9"
ShaPin == "c0ffeec0ffeec0ffeec0ffeec0ffeec0ffeec0ff"

TipShas == {Sha1, Sha2}

\* resolved references a lock file read from disk may hold
LockRefs == {"", "abc123", Sha1, Sha2}

\* config.Repository (the fields the orchestrator and the transports read)
Repo(name, url, type, branch, tag, commit) ==
    [Name |-> name, URL |-> url, Type |-> type,
     Branch |-> branch, Tag |-> tag, Commit |-> commit]

\* Repository.Tags, the user-defined tags for filtering
Tagged(r, tags) == [Name |-> r.Name, URL |-> r.URL, Type |-> r.Type,
                    Branch |-> r.Branch, Tag |-> r.Tag, Commit |-> r.Commit,
                    Tags |-> tags]

RepoA == Tagged(Repo("a", "https://h/a.git", "git", "dev", "", ""), <<"fw">>)
RepoB == Tagged(Repo("b", "https://h/b.tgz", "http", "", "", ""), <<"docs", "fw">>)
RepoC == Tagged(Repo("c", "https://h/c.git", "git", "dev", "v1", "c0ffee"), <<>>)
RepoD == Tagged(Repo("d", "https://h/d.git", "git", "", "v1", ""), <<"docs">>)
RepoE == Tagged(Repo("e", "svn://h/e", "svn", "", "", ""), <<>>)
RepoF == Tagged(Repo("f", "https://h/f.git", "git", "", "", ""), <<>>)

Catalogs == {<<RepoA, RepoB, RepoC>>, <<RepoD, RepoE>>, <<RepoF>>, <<>>}

AllNames == {"a", "b", "c", "d", "e", "f"}

\* config.Project
Project(name, repositories) == [Name |-> name, Repositories |-> repositories]

\* the projects a configuration file may declare; "spare" is an empty project
AllProjects ==
    <<Project("core", <<"a", "b">>), Project("web", <<"b", "c">>),
      Project("tools", <<"d">>), Project("spare", <<>>)>>

\* ValidateConfig, validateProject: every listed repository is declared
ValidProject(p, cat) ==
    \A k \in 1..Len(p.Repositories) :
       \E i \in 1..Len(cat) : cat[i].Name = p.Repositories[k]

\* m.config.Projects of a loaded configuration with these repositories
ProjectsOf(cat) == SelectSeq(AllProjects, LAMBDA p : ValidProject(p, cat))

----------------------------------------------------------------------------
(* pkg/config *)

\* Config.GetRepository: the first catalog entry with that name
GetRepositoryIdx(name) ==
    IF \E i \in 1..Len(catalog) : catalog[i].Name = name
    THEN CHOOSE i \in 1..Len(catalog) :
            /\ catalog[i].Name = name
            /\ \A j \in 1..(i - 1) : catalog[j].Name # name
    ELSE 0

\* Config.GetProject: the first project with that name, 0 when there is none
GetProjectIdx(projects, name) ==
    IF \E i \in 1..Len(projects) : projects[i].Name = name
    THEN CHOOSE i \in 1..Len(projects) :
            /\ projects[i].Name = name
            /\ \A j \in 1..(i - 1) : projects[j].Name # name
    ELSE 0

\* Config.GetRepositoriesForProject: (err, the member repositories)
GetRepositoriesForProject(projects, projectName) ==
    LET p == GetProjectIdx(projects, projectName)
    IN  IF p = 0 THEN [err |-> "project not found", repos |-> {}]
        ELSE IF \E k \in 1..Len(projects[p].Repositories) :
                   GetRepositoryIdx(projects[p].Repositories[k]) = 0
        THEN [err |-> "repository not found in project", repos |-> {}]
        ELSE [err |-> "",
              repos |-> {catalog[GetRepositoryIdx(projects[p].Repositories[k])] :
                            k \in 1..Len(projects[p].Repositories)}]

\* fault injection: a tag lookup that looks at the first tag only
GetRepositoriesByFirstTag(tag) ==
    {catalog[i] : i \in {j \in 1..Len(catalog) :
                            Len(catalog[j].Tags) > 0 /\ catalog[j].Tags[1] = tag}}

\* Config.GetRepositoriesByTag: the repositories carrying the tag
GetRepositoriesByTag(tag) ==
    {catalog[i] : i \in {j \in 1..Len(catalog) :
                            \E k \in 1..Len(catalog[j].Tags) : catalog[j].Tags[k] = tag}}

\* fault injection: the recorded reference with tag ranked above commit
GetEffectiveRefTagFirst(r, defaultBranch) ==
    IF r.Tag # "" THEN r.Tag
    ELSE IF r.Commit # "" THEN r.Commit
    ELSE IF r.Branch # "" THEN r.Branch
    ELSE defaultBranch

\* Repository.GetEffectiveRef: commit > tag > branch > default
GetEffectiveRef(r, defaultBranch) ==
    IF r.Commit # "" THEN r.Commit
    ELSE IF r.Tag # "" THEN r.Tag
    ELSE IF r.Branch # "" THEN r.Branch
    ELSE defaultBranch

----------------------------------------------------------------------------
(* pkg/lockfile *)

\* lockfile.NewEntry (LastSyncedAt is a wall-clock stamp and is left out)
NewEntry(url, repoType, requestedRef, resolvedSHA) ==
    [URL |-> url, Type |-> repoType,
     RequestedRef |-> requestedRef, ResolvedSHA |-> resolvedSHA]

\* LockFile.Update: lf.Entries[name] = entry
LockUpdate(lf, name, entry) ==
    [n \in (DOMAIN lf) \cup {name} |-> IF n = name THEN entry ELSE lf[n]]

\* fault injection: a Remove that leaves the entry in place
LockRemoveNothing(lf, name) == lf

\* LockFile.Remove: delete(lf.Entries, name)
LockRemove(lf, name) == [n \in (DOMAIN lf) \ {name} |-> lf[n]]

\* LockFile.Has
LockHas(lf, name) == name \in DOMAIN lf

ShouldUpdateIfMissing(lf, name, requestedRef) == name \notin DOMAIN lf

\* LockFile.ShouldUpdate
ShouldUpdate(lf, name, requestedRef) ==
    IF name \notin DOMAIN lf THEN TRUE
    ELSE lf[name].RequestedRef # requestedRef

\* LockFile.Clear: lf.Entries = make(map[string]LockEntry)
LockClear(lf) == [n \in {} |-> NewEntry("", "", "", "")]

\* LockFile.GetResolvedSHA: (sha, ok)
GetResolvedSHA(lf, name) ==
    IF name \in DOMAIN lf
    THEN [sha |-> lf[name].ResolvedSHA, ok |-> TRUE]
    ELSE [sha |-> "", ok |-> FALSE]

\* a lock file as lockfile.Load may read it: entries for the names in S,
\* all with resolved reference ref
LoadedLockFile(cat, S, ref) ==
    [n \in S |->
        LET r == cat[CHOOSE i \in 1..Len(cat) : cat[i].Name = n]
        IN  NewEntry(r.URL, r.Type, GetEffectiveRef(r, DefaultBranch), ref)]

----------------------------------------------------------------------------
(* pkg/types *)

\* the zero OperationResult of a freshly made result slice
ZeroResult ==
    [RepoName |-> "", RepoURL |-> "", Success |-> FALSE, Error |-> "",
     CommitSHA |-> "", Branch |-> "", Tag |-> ""]

\* syncRepository: result := types.OperationResult{RepoName, RepoURL, Branch, Tag}
StartResult(r) ==
    [RepoName |-> r.Name, RepoURL |-> r.URL, Success |-> FALSE, Error |-> "",
     CommitSHA |-> "", Branch |-> r.Branch, Tag |-> r.Tag]

\* fault injection: an error path taken after result.Success was set
FailedResultAfterSuccess(r, err) ==
    [StartResult(r) EXCEPT !.Success = TRUE, !.Error = err]

\* a path of syncRepository that sets result.Error and returns
FailedResult(r, err) == [StartResult(r) EXCEPT !.Error = err]

\* the end of syncRepository: result.Success = true; result.CommitSHA = sha
SuccessResult(r, sha) == [StartResult(r) EXCEPT !.Success = TRUE, !.CommitSHA = sha]

RECURSIVE CountSuccess(_)
CountSuccess(rs) ==
    IF rs = <<>> THEN 0
    ELSE (IF rs[1].Success THEN 1 ELSE 0) + CountSuccess(Tail(rs))

RECURSIVE CountFailure(_)
CountFailure(rs) ==
    IF rs = <<>> THEN 0
    ELSE (IF rs[1].Success THEN 0 ELSE 1) + CountFailure(Tail(rs))

\* fault injection: every result counted as a success
NewSyncResultCountingAll(rs) ==
    [TotalRepos |-> Len(rs), SuccessCount |-> Len(rs), FailureCount |-> 0,
     Results |-> rs]

\* types.NewSyncResult
NewSyncResult(rs) ==
    [TotalRepos |-> Len(rs),
     SuccessCount |-> CountSuccess(rs),
     FailureCount |-> CountFailure(rs),
     Results |-> rs]

\* &types.SyncResult{} (Sync over an empty repository set), and "no report"
EmptySyncResult ==
    [TotalRepos |-> 0, SuccessCount |-> 0, FailureCount |-> 0, Results |-> <<>>]

\* SyncResult.HasFailures
HasFailures(sr) == sr.FailureCount > 0

----------------------------------------------------------------------------
(* pkg/downloader: what a transport run does, as its caller observes it.   *)
(* A run is decided by an outcome o the environment chooses:               *)
(*   "ok"            every step of the backend succeeds                    *)
(*   "fetchFail"     git clone / git fetch / the HTTP download fails       *)
(*   "checkoutFail"  git checkout of the requested reference fails         *)

\* types.ProgressUpdate (Phase, Message, Error; "" is the nil error)
Event(ph, msg, err) == [Phase |-> ph, Message |-> msg, Error |-> err]

\* downloader.Exists(repoPath)
Exists(r) == disk[r.Name] # ""

\* downloader.New: only the two known repository types have a backend
NewFromRepositoryOk(r) == r.Type \in {"git", "http"}

\* GitDownloader.checkoutRef: does it run a checkout, and where HEAD is afterwards
\* (commit, else tag, else origin/<branch>, else nothing is checked out)
ChecksOut(r) == r.Commit # "" \/ r.Tag # "" \/ r.Branch # ""

checkoutRef(r, tip, head) ==
    IF r.Commit # "" THEN ShaPin
    ELSE IF r.Tag # "" THEN ShaTag
    ELSE IF r.Branch # "" THEN tip
    ELSE head

\* GitDownloader.DownloadWithProgress: the stream of a clone
GitDownloadEvents(r, tip, o) ==
    <<Event("connecting", "Connecting to remote...", ""),
      Event("fetching", "Cloning repository...", "")>> \o
    (IF o = "fetchFail"
     THEN <<Event("failed", "", "clone failed")>>
     ELSE IF r.Commit # "" \/ r.Tag # ""
     THEN <<Event("checkout", "Checking out ref...", "")>> \o
          (IF o = "checkoutFail"
           THEN <<Event("failed", "", "failed to checkout")>>
           ELSE <<Event("complete", checkoutRef(r, tip, tip), "")>>)
     ELSE <<Event("complete", tip, "")>>)

\* the destination after that clone: nothing on a failed clone, the cloned
\* HEAD when the later checkout fails, the requested reference otherwise
GitDownloadDisk(r, tip, o) ==
    IF o = "fetchFail" THEN ""
    ELSE IF r.Commit # "" \/ r.Tag # ""
    THEN (IF o = "checkoutFail" THEN tip ELSE checkoutRef(r, tip, tip))
    ELSE tip

\* GitDownloader.UpdateWithProgress: the stream of fetch + checkout
GitUpdateEvents(r, tip, head, o) ==
    <<Event("fetching", "Fetching updates...", "")>> \o
    (IF o = "fetchFail"
     THEN <<Event("failed", "", "fetch failed")>>
     ELSE <<Event("checkout", "Checking out...", "")>> \o
          (IF o = "checkoutFail" /\ ChecksOut(r)
           THEN <<Event("failed", "", "failed to checkout")>>
           ELSE <<Event("complete", checkoutRef(r, tip, head), "")>>))

\* the destination after that update
GitUpdateDisk(r, tip, head, o) ==
    IF o = "fetchFail" \/ (o = "checkoutFail" /\ ChecksOut(r)) THEN head
    ELSE checkoutRef(r, tip, head)

\* HTTPDownloader.DownloadWithProgress: the stream of a download whose attempts
\* all fail (o = "fetchFail") or whose last attempt succeeds
HTTPDownloadEvents(body, o) ==
    <<Event("connecting", "Connecting...", "")>> \o
    (IF o = "fetchFail"
     THEN <<Event("failed", "", "download failed")>>
     ELSE <<Event("fetching", "Downloading...", ""),
            Event("complete", body, "")>>)

\* the destination after that download
HTTPDownloadDisk(body, head, o) == IF o = "fetchFail" THEN head ELSE body

\* the outcomes the environment can choose for a run on r
Outcomes(r) ==
    {"ok", "fetchFail"} \cup
    (IF r.Type = "git" /\ (IF Exists(r) THEN ChecksOut(r)
                                        ELSE r.Commit # "" \/ r.Tag # "")
     THEN {"checkoutFail"} ELSE {})

\* syncRepository's dispatch: dl.UpdateWithProgress(repoPath) when the destination
\* exists, dl.DownloadWithProgress(repo.URL, repoPath) otherwise.
\* err is the error the call itself returns; events is the progress stream.
Dispatch(r, o) ==
    LET tip == remote[r.Name]
        head == disk[r.Name]
    IN  IF r.Type = "git"
        THEN IF Exists(r)
             THEN [err |-> "", events |-> GitUpdateEvents(r, tip, head, o),
                   disk |-> GitUpdateDisk(r, tip, head, o)]
             ELSE [err |-> "", events |-> GitDownloadEvents(r, tip, o),
                   disk |-> GitDownloadDisk(r, tip, o)]
        ELSE IF Exists(r)
             \* HTTPDownloader.UpdateWithProgress on a downloader that never
             \* downloaded: h.source == ""
             THEN [err |-> "source URL not set", events |-> <<>>, disk |-> head]
             ELSE [err |-> "", events |-> HTTPDownloadEvents(tip, o),
                   disk |-> HTTPDownloadDisk(tip, head, o)]

----------------------------------------------------------------------------
(* pkg/manager *)

\* WithConcurrency(n) applied to the default: n <= 0 leaves the value in place
WithConcurrency(n, previous) == IF n > 0 THEN n ELSE previous

\* fault injection: a semaphore that admits one sender too many
CanAcquireOffByOne(held, capacity) == held <= capacity

\* semaphore.acquire: the send blocks while the channel holds cap(sem) tokens
CanAcquire(held, capacity) == held < capacity

RECURSIVE Perms(_)
\* every order a Go map iteration can produce over the repositories in S
Perms(S) ==
    IF S = {} THEN {<<>>}
    ELSE UNION {{<<x>> \o p : p \in Perms(S \ {x})} : x \in S}

\* Filter
Filter(all, names, projects, tags) ==
    [All |-> all, Names |-> names, Projects |-> projects, Tags |-> tags]

\* getRepositories, "Add repos from projects": the error of the first project
\* whose expansion fails, "" when every project expands
ProjectsErr(projects, names) ==
    IF \E k \in 1..Len(names) : GetRepositoriesForProject(projects, names[k]).err # ""
    THEN LET k == CHOOSE i \in 1..Len(names) :
                     /\ GetRepositoriesForProject(projects, names[i]).err # ""
                     /\ \A j \in 1..(i - 1) :
                           GetRepositoriesForProject(projects, names[j]).err = ""
         IN  GetRepositoriesForProject(projects, names[k]).err
    ELSE ""

\* getRepositories: the repoSet it builds, keyed by repository name
RepoSet(f, projects) ==
    {catalog[GetRepositoryIdx(f.Names[k])] : k \in 1..Len(f.Names)}
    \cup UNION {GetRepositoriesForProject(projects, f.Projects[k]).repos :
                  k \in 1..Len(f.Projects)}
    \cup UNION {GetRepositoriesByTag(f.Tags[k]) : k \in 1..Len(f.Tags)}

\* fault injection: unknown names are skipped instead of failing the call
getRepositoriesSkipUnknown(f) ==
    LET known == [f EXCEPT !.Names = SelectSeq(f.Names,
                                        LAMBDA n : GetRepositoryIdx(n) # 0)]
    IN  IF f.All \/ (Len(f.Names) = 0 /\ Len(f.Projects) = 0 /\ Len(f.Tags) = 0)
        THEN [err |-> "", lists |-> {catalog}]
        ELSE IF ProjectsErr(ProjectsOf(catalog), f.Projects) # ""
        THEN [err |-> ProjectsErr(ProjectsOf(catalog), f.Projects), lists |-> {}]
        ELSE [err |-> "", lists |-> Perms(RepoSet(known, ProjectsOf(catalog)))]

\* fault injection: a selection that matches nothing falls back to the catalog
getRepositoriesEmptyMeansAll(f) ==
    IF f.All \/ (Len(f.Names) = 0 /\ Len(f.Projects) = 0 /\ Len(f.Tags) = 0)
    THEN [err |-> "", lists |-> {catalog}]
    ELSE IF \E k \in 1..Len(f.Names) : GetRepositoryIdx(f.Names[k]) = 0
    THEN [err |-> "repository not found", lists |-> {}]
    ELSE IF ProjectsErr(ProjectsOf(catalog), f.Projects) # ""
    THEN [err |-> ProjectsErr(ProjectsOf(catalog), f.Projects), lists |-> {}]
    ELSE IF RepoSet(f, ProjectsOf(catalog)) = {}
    THEN [err |-> "", lists |-> {catalog}]
    ELSE [err |-> "", lists |-> Perms(RepoSet(f, ProjectsOf(catalog)))]

\* fault injection: only the first criterion present decides (names, else
\* projects, else tags)
getRepositoriesFirstCriterion(f) ==
    LET one == IF Len(f.Names) > 0 THEN [f EXCEPT !.Projects = <<>>, !.Tags = <<>>]
               ELSE IF Len(f.Projects) > 0 THEN [f EXCEPT !.Tags = <<>>]
               ELSE f
    IN  IF f.All \/ (Len(f.Names) = 0 /\ Len(f.Projects) = 0 /\ Len(f.Tags) = 0)
        THEN [err |-> "", lists |-> {catalog}]
        ELSE IF \E k \in 1..Len(one.Names) : GetRepositoryIdx(one.Names[k]) = 0
        THEN [err |-> "repository not found", lists |-> {}]
        ELSE IF ProjectsErr(ProjectsOf(catalog), one.Projects) # ""
        THEN [err |-> ProjectsErr(ProjectsOf(catalog), one.Projects), lists |-> {}]
        ELSE [err |-> "", lists |-> Perms(RepoSet(one, ProjectsOf(catalog)))]

\* getRepositories: (err, the lists it can return)
getRepositories(f) ==
    IF f.All \/ (Len(f.Names) = 0 /\ Len(f.Projects) = 0
                                            /\ Len(f.Tags) = 0)
    THEN [err |-> "", lists |-> {catalog}]
    ELSE IF \E k \in 1..Len(f.Names) : GetRepositoryIdx(f.Names[k]) = 0
    THEN [err |-> "repository not found", lists |-> {}]
    ELSE IF ProjectsErr(ProjectsOf(catalog), f.Projects) # ""
    THEN [err |-> ProjectsErr(ProjectsOf(catalog), f.Projects), lists |-> {}]
    ELSE [err |-> "", lists |-> Perms(RepoSet(f, ProjectsOf(catalog)))]

\* fault injection: a lookup that treats a missing entry as found
LockedTargetLenient(r) ==
    IF locked /\ hasLockFile
    THEN [sha |-> GetResolvedSHA(lockFile, r.Name).sha, ok |-> TRUE]
    ELSE [sha |-> "", ok |-> TRUE]

\* syncRepository, "Check if we should use locked SHA": (targetSHA, ok)
LockedTarget(r) ==
    IF locked /\ hasLockFile
    THEN GetResolvedSHA(lockFile, r.Name)
    ELSE [sha |-> "", ok |-> TRUE]

\* syncRepository up to the dispatch: the error it returns with before any
\* progress stream exists ("" when the transport is now running), and whether
\* the transport was called at all
Preflight(r) ==
    IF ~LockedTarget(r).ok
    THEN [err |-> "no lock entry for repository", invoked |-> FALSE]
    ELSE IF ~NewFromRepositoryOk(r)
    THEN [err |-> "failed to create downloader", invoked |-> FALSE]
    ELSE [err |-> Dispatch(r, "ok").err, invoked |-> TRUE]

\* fault injection: a loop that reads the stream to its end, the last error
\* and the last complete event deciding
DrainToClosure(events, sha) ==
    LET errs == SelectSeq(events, LAMBDA e : e.Error # "")
        done == SelectSeq(events, LAMBDA e : e.Error = "" /\ e.Phase = "complete")
    IN  [err |-> IF errs = <<>> THEN "" ELSE errs[Len(errs)].Error,
         sha |-> IF done = <<>> THEN sha ELSE done[Len(done)].Message]

RECURSIVE Drain(_, _)
\* syncRepository, "Process progress updates": the loop over the stream.
\* The first event carrying an error ends it; a complete event sets sha.
Drain(events, sha) ==
    IF events = <<>> THEN [err |-> "", sha |-> sha]
    ELSE IF Head(events).Error # "" THEN [err |-> Head(events).Error, sha |-> sha]
    ELSE Drain(Tail(events),
               IF Head(events).Phase = "complete" THEN Head(events).Message ELSE sha)

\* s[:8] panics when s is shorter than 8 bytes
SlicePanics(s) == Len(s) < ShaPrefixLen

\* syncRepository, "Verify locked SHA if in locked mode"
LockMismatch(targetSHA, sha) == locked /\ targetSHA # "" /\ sha # targetSHA

\* syncRepository from the drained stream to its return, given the destination
\* as the transport left it.  ui: m.ui != nil.
Conclude(r, targetSHA, drained, dest, ui) ==
    IF drained.err # ""
    THEN [panic |-> FALSE, result |-> FailedResult(r, drained.err)]
    ELSE IF drained.sha = "" /\ dest = ""
    THEN [panic |-> FALSE, result |-> FailedResult(r, "failed to get current ref")]
    ELSE LET sha == IF drained.sha = "" THEN dest ELSE drained.sha
         IN  IF LockMismatch(targetSHA, sha)
             THEN [panic |-> SlicePanics(targetSHA) \/ SlicePanics(sha),
                   result |-> FailedResult(r, "SHA mismatch")]
             ELSE [panic |-> ui /\ SlicePanics(sha),
                   result |-> SuccessResult(r, sha)]

\* syncRepository before the drain loop: the phases it passes to
\* m.ui.SendProgress ("Starting...", then CreateErrorMsg on an early return)
PreflightNotes(r, ui) ==
    IF ~ui THEN <<>>
    ELSE IF Preflight(r).err # "" THEN <<"initializing", "failed">>
    ELSE <<"initializing">>

RECURSIVE Forwarded(_)
\* syncRepository, "Process progress updates": the phases forwarded to the
\* sink, every event up to and including the first one carrying an error
Forwarded(events) ==
    IF events = <<>> THEN <<>>
    ELSE IF Head(events).Error # "" THEN <<Head(events).Phase>>
    ELSE <<Head(events).Phase>> \o Forwarded(Tail(events))

\* syncRepository after the drain loop: CreateErrorMsg for a missing final
\* reference or a mismatch, CreateCompletedMsg on success; a panic comes
\* before the send
ConcludeNotes(c, drained) ==
    IF drained.err # "" \/ c.panic THEN <<>>
    ELSE IF c.result.Success THEN <<"complete">>
    ELSE <<"failed">>

\* syncRepository(repo) under transport outcome o: (panic, result, the
\* destination afterwards, whether the transport was called, the reference
\* the transport's stream reported, the phases passed to the sink)
syncRepository(r, o, ui) ==
    LET pre == Preflight(r)
        d == Dispatch(r, o)
        drained == Drain(d.events, "")
    IN  IF pre.err # ""
        THEN [panic |-> FALSE, result |-> FailedResult(r, pre.err),
              disk |-> disk[r.Name], invoked |-> pre.invoked, sha |-> "",
              notes |-> PreflightNotes(r, ui)]
        ELSE LET c == Conclude(r, LockedTarget(r).sha, drained, d.disk, ui)
             IN  [panic |-> c.panic, result |-> c.result,
                  disk |-> d.disk, invoked |-> TRUE,
                  sha |-> IF drained.err = "" THEN drained.sha ELSE "",
                  notes |-> IF ui
                            THEN PreflightNotes(r, ui) \o Forwarded(d.events)
                                    \o ConcludeNotes(c, drained)
                            ELSE <<>>]

\* fault injection: updateLockFile without its "|| m.locked" test
LockWritableIgnoringLocked == hasLockFile

\* updateLockFile skips everything when there is no lock file or in locked mode
LockWritable == hasLockFile /\ ~locked

\* updateLockFile: the entry written for one successful result
EntryFor(res) ==
    LET repo == catalog[GetRepositoryIdx(res.RepoName)]
    IN  NewEntry(repo.URL, repo.Type,
                 GetEffectiveRef(repo, DefaultBranch), res.CommitSHA)

\* fault injection: updateLockFile without its "if !result.Success" skip
WritesEntryAnyResult(res) == GetRepositoryIdx(res.RepoName) # 0

\* updateLockFile: does this result write an entry
WritesEntry(res) == res.Success /\ GetRepositoryIdx(res.RepoName) # 0

RECURSIVE updateLoop(_, _)
\* updateLockFile: the loop over the results, in order
updateLoop(lf, rs) ==
    IF rs = <<>> THEN lf
    ELSE updateLoop(IF WritesEntry(rs[1])
                    THEN LockUpdate(lf, rs[1].RepoName, EntryFor(rs[1]))
                    ELSE lf,
                    Tail(rs))

\* updateLockFile(results)
updateLockFile(lf, rs) == IF LockWritable THEN updateLoop(lf, rs) ELSE lf

----------------------------------------------------------------------------
(* The state after NewRepositoryManager(cfg, opts...) *)

Names(cat) == {cat[i].Name : i \in 1..Len(cat)}

\* the lock files explored: entries for the first k repositories of the
\* catalog (k = 0: an empty lock file), all holding the same resolved reference
InitialLockFiles(cat) ==
    {LoadedLockFile(cat, {cat[i].Name : i \in 1..k}, ref) :
        k \in 0..Len(cat), ref \in LockRefs}

\* the working directories explored: nothing synced yet, or every destination
\* of the catalog present from an earlier run that resolved to Sha1
InitialDisks(cat) ==
    {[n \in AllNames |-> ""],
     [n \in AllNames |-> IF n \in Names(cat) THEN Sha1 ELSE ""]}

SyncInit ==
    /\ catalog \in Catalogs
    /\ hasLockFile \in BOOLEAN
    /\ lockFile \in (IF hasLockFile THEN InitialLockFiles(catalog) ELSE {<<>>})
    /\ locked \in BOOLEAN
    /\ \E n \in 0..MaxConcurrency :
          concurrent = WithConcurrency(n, DefaultConcurrency)
    /\ uiDone = FALSE
    /\ remote = [n \in AllNames |-> Sha1]
    /\ disk \in InitialDisks(catalog)
    /\ phase = "idle"
    /\ call = "none"
    /\ callErr = ""
    /\ repos = <<>>
    /\ pc = <<>>
    /\ sem = 0
    /\ results = <<>>
    /\ report = EmptySyncResult
    /\ lockAtCall = lockFile
    /\ slotWrites = <<>>
    /\ invoked = {}
    /\ resolved = <<>>
    /\ notified = <<>>

\* the state of the other specifications, at rest
\* no transport call is being followed step by step
NoJob == [Op |-> "none", RetryAttempts |-> 0, Failures |-> 0, MkdirOk |-> TRUE,
          Ref |-> FALSE]

\* an error value: its message, the attempt count its message states (0 when
\* it states none) and the attempt whose error it is or wraps (0 for none)
Err(msg, count, cause) == [msg |-> msg, attempts |-> count, cause |-> cause]

NoErr == Err("", 0, 0)

StreamIdle ==
    /\ job = NoJob
    /\ producer = "none"
    /\ attempt = 0
    /\ attempts = 0
    /\ progress = <<>>
    /\ closes = 0
    /\ received = <<>>
    /\ lines = 0
    /\ ret = ""
    /\ lastErr = NoErr
    /\ surfaced = NoErr

NoQuery == [name |-> "", requestedRef |-> ""]

ProbeIdle ==
    /\ query = NoQuery
    /\ answer = "none"
    /\ msgChan = <<>>
    /\ pending = <<>>
    /\ exitCode = -1
    /\ lockSaved = FALSE
    /\ stream = <<>>
    /\ cfgProjects = <<>>
    /\ ops = 0
    /\ sinkErrs = <<>>

AuxInit ==
    /\ catalogAtCall = catalog
    /\ prevRuns = <<>>
    /\ filter = Filter(TRUE, <<>>, <<>>, <<>>)
    /\ target = ""
    /\ StreamIdle
    /\ ProbeIdle

Init == SyncInit /\ AuxInit

----------------------------------------------------------------------------
(* RepositoryManager.Sync *)

\* a call that returns an error (or an empty report) before any task exists
ReturnEarly(name, err) ==
    /\ call' = name
    /\ callErr' = err
    /\ repos' = <<>>
    /\ pc' = <<>>
    /\ sem' = 0
    /\ results' = <<>>
    /\ report' = EmptySyncResult
    /\ slotWrites' = <<>>
    /\ invoked' = {}
    /\ resolved' = <<>>
    /\ notified' = <<>>
    /\ phase' = "returned"
    /\ UNCHANGED <<managerVars, lockFile, uiDone, remote, disk>>

\* Sync(filter) up to the start of the goroutines.  wdOk: os.MkdirAll succeeds.
SyncStart(f, wdOk) ==
    /\ phase = "idle"
    /\ lockAtCall' = lockFile
    /\ IF ~wdOk
       THEN ReturnEarly("Sync", "failed to create work directory")
       ELSE IF getRepositories(f).err # ""
       THEN ReturnEarly("Sync", getRepositories(f).err)
       ELSE \E rs \in getRepositories(f).lists :
               IF Len(rs) = 0
               THEN ReturnEarly("Sync", "")
               ELSE /\ call' = "Sync"
                    /\ callErr' = ""
                    /\ repos' = rs
                    /\ pc' = [i \in 1..Len(rs) |-> "waiting"]
                    /\ sem' = 0
                    /\ results' = [i \in 1..Len(rs) |-> ZeroResult]
                    /\ report' = EmptySyncResult
                    /\ slotWrites' = [i \in 1..Len(rs) |-> 0]
                    /\ invoked' = {}
                    /\ resolved' = [i \in 1..Len(rs) |-> ""]
                    /\ notified' = [i \in 1..Len(rs) |-> <<>>]
                    /\ phase' = "syncing"
                    /\ UNCHANGED <<managerVars, lockFile, uiDone, remote, disk>>
    /\ UNCHANGED auxVars

\* fault injection: results appended in order of completion
SlotOfArrival(i) == Cardinality({j \in DOMAIN slotWrites : slotWrites[j] > 0}) + 1

\* the slot a finished syncRepository is stored in: results[idx] = ...
SlotOf(i) == i

\* goroutine idx: sem.acquire() returns, and syncRepository runs until it
\* returns early or the transport is running (its first blocking point)
TaskStart(i) ==
    /\ phase = "syncing"
    /\ i \in DOMAIN pc
    /\ pc[i] = "waiting"
    /\ CanAcquire(sem, concurrent)
    /\ sem' = sem + 1
    /\ LET pre == Preflight(repos[i])
       IN  /\ invoked' = IF pre.invoked THEN invoked \cup {i} ELSE invoked
           /\ notified' = [notified EXCEPT ![i] = PreflightNotes(repos[i], TRUE)]
           /\ IF pre.err # ""
              THEN /\ results' = [results EXCEPT
                                    ![SlotOf(i)] = FailedResult(repos[i], pre.err)]
                   /\ slotWrites' = [slotWrites EXCEPT ![SlotOf(i)] = @ + 1]
                   /\ pc' = [pc EXCEPT ![i] = "finished"]
              ELSE /\ pc' = [pc EXCEPT ![i] = "transport"]
                   /\ UNCHANGED <<results, slotWrites>>
    /\ UNCHANGED <<managerVars, lockFile, uiDone, remote, disk, phase, call, callErr,
                   repos, report, lockAtCall, resolved>>
    /\ UNCHANGED auxVars

\* goroutine idx: the transport finishes under outcome o, syncRepository
\* drains the stream and returns, and the result is stored in its slot
TaskTransportDone(i, o) ==
    /\ phase = "syncing"
    /\ i \in DOMAIN pc
    /\ pc[i] = "transport"
    /\ o \in Outcomes(repos[i])
    /\ LET s == syncRepository(repos[i], o, TRUE)
       IN  /\ disk' = [disk EXCEPT ![repos[i].Name] = s.disk]
           /\ resolved' = [resolved EXCEPT ![i] = s.sha]
           /\ notified' = [notified EXCEPT ![i] = s.notes]
           /\ IF s.panic
              THEN /\ phase' = "crashed"
                   /\ pc' = [pc EXCEPT ![i] = "panicked"]
                   /\ UNCHANGED <<results, slotWrites>>
              ELSE /\ results' = [results EXCEPT ![SlotOf(i)] = s.result]
                   /\ slotWrites' = [slotWrites EXCEPT ![SlotOf(i)] = @ + 1]
                   /\ pc' = [pc EXCEPT ![i] = "finished"]
                   /\ UNCHANGED phase
    /\ UNCHANGED <<managerVars, lockFile, uiDone, remote, call, callErr,
                   repos, sem, report, lockAtCall, invoked>>
    /\ UNCHANGED auxVars

\* goroutine idx: the deferred sem.release() and wg.Done()
TaskExit(i) ==
    /\ phase = "syncing"
    /\ i \in DOMAIN pc
    /\ pc[i] = "finished"
    /\ sem' = sem - 1
    /\ pc' = [pc EXCEPT ![i] = "done"]
    /\ UNCHANGED <<managerVars, lockFile, uiDone, remote, disk, phase, call, callErr,
                   repos, results, report, lockAtCall, slotWrites, invoked, resolved,
                   notified>>
    /\ UNCHANGED auxVars

\* fault injection: a wait that returns as soon as one goroutine is done
JoinedAny == \E i \in DOMAIN pc : pc[i] = "done"

\* wg.Wait() returns once every goroutine called wg.Done()
Joined == \A i \in DOMAIN pc : pc[i] = "done"

\* Sync after wg.Wait(): updateLockFile(results), m.ui.Complete(duration)
\* (close(pm.done) panics when done is already closed), NewSyncResult
SyncJoin ==
    /\ phase = "syncing"
    /\ Joined
    /\ lockFile' = updateLockFile(lockFile, results)
    /\ IF uiDone
       THEN /\ phase' = "crashed"
            /\ UNCHANGED <<report, uiDone>>
       ELSE /\ uiDone' = TRUE
            /\ report' = NewSyncResult(results)
            /\ phase' = "returned"
    /\ UNCHANGED <<managerVars, remote, disk, call, callErr, repos, pc, sem,
                   results, lockAtCall, slotWrites, invoked, resolved, notified>>
    /\ UNCHANGED auxVars

----------------------------------------------------------------------------
(* RepositoryManager.SyncOne *)

\* SyncOne: "if result.Success && m.lockFile != nil && !m.locked"
SyncOneWrites(res) == res.Success /\ hasLockFile /\ ~locked

\* SyncOne(name): one sequential call.  m.ui is set only once a Sync created it.
SyncOne(name, wdOk, o) ==
    /\ phase = "idle"
    /\ lockAtCall' = lockFile
    /\ IF GetRepositoryIdx(name) = 0
       THEN ReturnEarly("SyncOne", "repository not found")
       ELSE IF ~wdOk
       THEN ReturnEarly("SyncOne", "failed to create work directory")
       ELSE LET r == catalog[GetRepositoryIdx(name)]
                s == syncRepository(r, o, uiDone)
            IN  /\ o \in Outcomes(r)
                /\ call' = "SyncOne"
                /\ callErr' = ""
                /\ repos' = <<r>>
                /\ sem' = 0
                /\ report' = EmptySyncResult
                /\ invoked' = IF s.invoked THEN {1} ELSE {}
                /\ disk' = [disk EXCEPT ![r.Name] = s.disk]
                /\ resolved' = <<s.sha>>
                /\ notified' = <<s.notes>>
                /\ pc' = <<IF s.panic THEN "panicked" ELSE "done">>
                /\ IF s.panic
                   THEN /\ phase' = "crashed"
                        /\ results' = <<ZeroResult>>
                        /\ slotWrites' = <<0>>
                        /\ UNCHANGED lockFile
                   ELSE /\ results' = <<s.result>>
                        /\ slotWrites' = <<1>>
                        /\ lockFile' = IF SyncOneWrites(s.result)
                                       THEN updateLockFile(lockFile, <<s.result>>)
                                       ELSE lockFile
                        /\ phase' = "returned"
                /\ UNCHANGED <<managerVars, uiDone, remote>>
    /\ UNCHANGED auxVars

----------------------------------------------------------------------------
(* The environment *)

\* the source of a repository moves on: a new branch tip, a new file body
RemoteAdvance(n) ==
    /\ phase = "idle"
    /\ n \in Names(catalog)
    /\ remote[n] = Sha1
    /\ Cardinality({m \in AllNames : remote[m] # Sha1}) < MaxMoves
    /\ remote' = [remote EXCEPT ![n] = Sha2]
    /\ UNCHANGED <<managerVars, lockFile, uiDone, disk, phase, call, callErr, repos,
                   pc, sem, results, report, lockAtCall, slotWrites, invoked, resolved,
                   notified>>
    /\ UNCHANGED auxVars

----------------------------------------------------------------------------

\* the names a caller passes: catalog names and one unknown name
CallNames == Names(catalog) \cup {"zz"}

\* the name lists explored: 1..MaxNames names, and every catalog name next
\* to the unknown one
NameLists ==
    UNION {[1..k -> CallNames] : k \in 1..MaxNames}
    \cup {<<n, "zz">> : n \in Names(catalog)} \cup {<<"zz", n>> : n \in Names(catalog)}

\* the project names and tags a caller passes, each with one unknown
CallProjects == {"core", "tools", "spare", "nope"}
CallTags == {"fw", "docs", "none"}

\* the filters explored: All, the empty filter, names, one project, one tag
Filters ==
    {Filter(TRUE, <<>>, <<>>, <<>>), Filter(FALSE, <<>>, <<>>, <<>>)}
    \cup {Filter(FALSE, ns, <<>>, <<>>) : ns \in NameLists}
    \cup {Filter(FALSE, <<>>, <<p>>, <<>>) : p \in CallProjects}
    \cup {Filter(FALSE, <<>>, <<>>, <<t>>) : t \in CallTags}

TaskIds == 1..3

AllOutcomes == {"ok", "fetchFail", "checkoutFail"}

Next ==
    \/ \E f \in Filters, wdOk \in BOOLEAN : SyncStart(f, wdOk)
    \/ \E i \in TaskIds : TaskStart(i)
    \/ \E i \in TaskIds, o \in AllOutcomes : TaskTransportDone(i, o)
    \/ \E i \in TaskIds : TaskExit(i)
    \/ SyncJoin
    \/ \E n \in CallNames, wdOk \in BOOLEAN, o \in AllOutcomes : SyncOne(n, wdOk, o)
    \/ \E n \in AllNames : RemoteAdvance(n)

Spec == Init /\ [][Next]_vars

\* Sync under the scheduling the Go runtime gives: a runnable goroutine runs,
\* and a started transport operation terminates
FairSpec ==
    /\ Spec
    /\ \A i \in TaskIds : WF_vars(TaskStart(i))
    /\ \A i \in TaskIds : WF_vars(\E o \in AllOutcomes : TaskTransportDone(i, o))
    /\ \A i \in TaskIds : WF_vars(TaskExit(i))
    /\ WF_vars(SyncJoin)

----------------------------------------------------------------------------
(* FilterSpec: Sync(filter) up to the start of its goroutines, over the
   filters a caller can build from names, projects and tags *)

\* the Filter.Names lists explored: up to MaxFilterNames catalog or unknown names
FilterNameLists == UNION {[1..k -> CallNames] : k \in 0..MaxFilterNames}

\* the Filter.Projects lists explored
FilterProjectLists ==
    {<<>>, <<"core">>, <<"web">>, <<"tools">>, <<"spare">>, <<"nope">>,
     <<"core", "web">>, <<"core", "nope">>}

\* the Filter.Tags lists explored
FilterTagLists ==
    {<<>>, <<"fw">>, <<"docs">>, <<"none">>, <<"fw", "docs">>, <<"fw", "none">>}

\* a manager with a loaded lock file that holds an entry for every repository
FilterInit ==
    /\ SyncInit
    /\ hasLockFile /\ ~locked
    /\ concurrent = DefaultConcurrency
    /\ lockFile = LoadedLockFile(catalog, Names(catalog), Sha1)
    /\ \A n \in AllNames : disk[n] = ""
    /\ catalogAtCall = catalog
    /\ prevRuns = <<>>
    /\ target = ""
    /\ StreamIdle
    /\ ProbeIdle
    /\ \E all \in BOOLEAN, ns \in FilterNameLists,
          ps \in FilterProjectLists, ts \in FilterTagLists :
          filter = Filter(all, ns, ps, ts)

FilterNext == \E wdOk \in BOOLEAN : SyncStart(filter, wdOk)

FilterSpec == FilterInit /\ [][FilterNext]_vars

----------------------------------------------------------------------------
(* CatalogSpec: RepositoryManager.Remove(target) *)

\* Config.RemoveRepository: the catalog without its first entry of that name
RemoveRepository(cat, name) ==
    LET idx == GetRepositoryIdx(name)
    IN  IF idx = 0 THEN [err |-> "repository not found", repos |-> cat]
        ELSE [err |-> "",
              repos |-> SubSeq(cat, 1, idx - 1) \o SubSeq(cat, idx + 1, Len(cat))]

\* Remove(name): the catalog entry goes, then the lock entry when a lock
\* file is attached
Remove(name) ==
    /\ phase = "idle"
    /\ lockAtCall' = lockFile
    /\ IF RemoveRepository(catalog, name).err # ""
       THEN ReturnEarly("Remove", RemoveRepository(catalog, name).err)
       ELSE /\ catalog' = RemoveRepository(catalog, name).repos
            /\ lockFile' = IF hasLockFile THEN LockRemove(lockFile, name) ELSE lockFile
            /\ call' = "Remove"
            /\ callErr' = ""
            /\ phase' = "returned"
            /\ UNCHANGED <<hasLockFile, locked, concurrent, uiDone, remote, disk,
                           repos, pc, sem, results, report, slotWrites, invoked,
                           resolved, notified>>
    /\ UNCHANGED auxVars

\* a manager as in Init, and the name its caller removes
CatalogInit ==
    /\ SyncInit
    /\ catalogAtCall = catalog
    /\ prevRuns = <<>>
    /\ filter = Filter(TRUE, <<>>, <<>>, <<>>)
    /\ target \in CallNames
    /\ StreamIdle
    /\ ProbeIdle

CatalogNext == Remove(target)

CatalogSpec == CatalogInit /\ [][CatalogNext]_vars

----------------------------------------------------------------------------
(* RerunSpec: hm sync run again over the same working directory, against
   sources that do not change and transports that do not fail *)

\* the process has exited and the next one starts: a new manager over the
\* same configuration, lock file and working directory
NextRun ==
    /\ phase = "returned"
    /\ call \in {"Sync", "SyncOne"}
    /\ Len(prevRuns) < MaxRuns - 1
    /\ prevRuns' = Append(prevRuns, [call |-> call, results |-> results])
    /\ phase' = "idle"
    /\ call' = "none"
    /\ callErr' = ""
    /\ repos' = <<>>
    /\ pc' = <<>>
    /\ sem' = 0
    /\ results' = <<>>
    /\ report' = EmptySyncResult
    /\ lockAtCall' = lockFile
    /\ slotWrites' = <<>>
    /\ invoked' = {}
    /\ resolved' = <<>>
    /\ notified' = <<>>
    /\ uiDone' = FALSE
    /\ UNCHANGED <<managerVars, lockFile, remote, disk, catalogAtCall, filter, target,
                   streamVars, probeVars>>

\* a non-locked manager with an empty lock file
RerunInit ==
    /\ SyncInit
    /\ hasLockFile /\ ~locked
    /\ concurrent = DefaultConcurrency
    /\ DOMAIN lockFile = {}
    /\ AuxInit

RerunNext ==
    \/ \E f \in Filters : SyncStart(f, TRUE)
    \/ \E i \in TaskIds : TaskStart(i)
    \/ \E i \in TaskIds : TaskTransportDone(i, "ok")
    \/ \E i \in TaskIds : TaskExit(i)
    \/ SyncJoin
    \/ \E n \in CallNames : SyncOne(n, TRUE, "ok")
    \/ NextRun

RerunSpec == RerunInit /\ [][RerunNext]_vars

----------------------------------------------------------------------------
(* ReuseSpec: one RepositoryManager called again and again, with sources that
   do not change and transports that do not fail *)

\* the call has returned and the caller makes the next one on the same
\* manager: m.ui and its done channel stay as the last call left them
CallAgain ==
    /\ phase = "returned"
    /\ call \in {"Sync", "SyncOne"}
    /\ Len(prevRuns) < MaxRuns - 1
    /\ prevRuns' = Append(prevRuns, [call |-> call, results |-> results])
    /\ phase' = "idle"
    /\ call' = "none"
    /\ callErr' = ""
    /\ repos' = <<>>
    /\ pc' = <<>>
    /\ sem' = 0
    /\ results' = <<>>
    /\ report' = EmptySyncResult
    /\ lockAtCall' = lockFile
    /\ slotWrites' = <<>>
    /\ invoked' = {}
    /\ resolved' = <<>>
    /\ notified' = <<>>
    /\ UNCHANGED <<managerVars, lockFile, uiDone, remote, disk, catalogAtCall, filter,
                   target, streamVars, probeVars>>

ReuseInit ==
    /\ SyncInit
    /\ hasLockFile /\ ~locked
    /\ concurrent = DefaultConcurrency
    /\ DOMAIN lockFile = {}
    /\ AuxInit

ReuseNext ==
    \/ \E f \in Filters : SyncStart(f, TRUE)
    \/ \E i \in TaskIds : TaskStart(i)
    \/ \E i \in TaskIds : TaskTransportDone(i, "ok")
    \/ \E i \in TaskIds : TaskExit(i)
    \/ SyncJoin
    \/ \E n \in CallNames : SyncOne(n, TRUE, "ok")
    \/ CallAgain

ReuseSpec == ReuseInit /\ [][ReuseNext]_vars

----------------------------------------------------------------------------
(* ConfigSpec: the manager's configuration mutations, called one after the
   other on a configuration that passed ValidateConfig *)

\* ValidateConfig: no duplicate repository name, no duplicate project name,
\* every repository a project lists is declared
ValidateConfig(cat, projs) ==
    /\ \A i, j \in 1..Len(cat) : cat[i].Name = cat[j].Name => i = j
    /\ \A i, j \in 1..Len(projs) : projs[i].Name = projs[j].Name => i = j
    /\ \A k \in 1..Len(projs) : ValidProject(projs[k], cat)

\* Project.HasRepository
HasRepository(proj, name) ==
    \E k \in 1..Len(proj.Repositories) : proj.Repositories[k] = name

\* s without its element at position k
Without(seq, k) == SubSeq(seq, 1, k - 1) \o SubSeq(seq, k + 1, Len(seq))

\* the return of a configuration call: what the call leaves alone
Returning(name, err) ==
    /\ call' = name
    /\ callErr' = err
    /\ phase' = "returned"
    /\ lockAtCall' = lockFile
    /\ UNCHANGED <<hasLockFile, lockFile, locked, concurrent, uiDone, remote, disk,
                   repos, pc, sem, results, report, slotWrites, invoked, resolved,
                   notified>>
    /\ UNCHANGED <<callVars, streamVars, query, answer, msgChan, pending, exitCode,
                   lockSaved, stream, ops, sinkErrs>>

\* Add, Config.AddRepository: the error the call returns, "" when it appends.
\* The repositories passed carry their Type, so DetectType is not called.
AddErr(repo) ==
    IF repo.Name = "" THEN "repository name is required"
    ELSE IF repo.URL = "" THEN "repository URL is required"
    ELSE IF GetRepositoryIdx(repo.Name) # 0 THEN "repository already exists"
    ELSE ""

\* RepositoryManager.Add(repo)
Add(repo) ==
    /\ phase = "idle"
    /\ catalog' = IF AddErr(repo) = "" THEN Append(catalog, repo) ELSE catalog
    /\ Returning("Add", AddErr(repo))
    /\ UNCHANGED cfgProjects

\* AddProject, Config.AddProject: the error the call returns
AddProjectErr(proj) ==
    IF proj.Name = "" THEN "project name is required"
    ELSE IF \E k \in 1..Len(proj.Repositories) :
               GetRepositoryIdx(proj.Repositories[k]) = 0
    THEN "repository not found"
    ELSE IF GetProjectIdx(cfgProjects, proj.Name) # 0 THEN "project already exists"
    ELSE ""

\* RepositoryManager.AddProject(proj)
AddProject(proj) ==
    /\ phase = "idle"
    /\ cfgProjects' = IF AddProjectErr(proj) = "" THEN Append(cfgProjects, proj)
                      ELSE cfgProjects
    /\ Returning("AddProject", AddProjectErr(proj))
    /\ UNCHANGED catalog

\* RepositoryManager.RemoveProject(name), Config.RemoveProject
RemoveProject(name) ==
    /\ phase = "idle"
    /\ LET idx == GetProjectIdx(cfgProjects, name)
       IN  IF idx = 0
           THEN /\ Returning("RemoveProject", "project not found")
                /\ UNCHANGED cfgProjects
           ELSE /\ cfgProjects' = Without(cfgProjects, idx)
                /\ Returning("RemoveProject", "")
    /\ UNCHANGED catalog

\* Config.AddRepoToProject: the error the call returns
AddRepoToProjectErr(projectName, repoName) ==
    IF GetRepositoryIdx(repoName) = 0 THEN "repository not found"
    ELSE IF GetProjectIdx(cfgProjects, projectName) = 0 THEN "project not found"
    ELSE IF HasRepository(cfgProjects[GetProjectIdx(cfgProjects, projectName)], repoName)
    THEN "repository already in project"
    ELSE ""

\* RepositoryManager.AddRepoToProject(projectName, repoName)
AddRepoToProject(projectName, repoName) ==
    /\ phase = "idle"
    /\ LET err == AddRepoToProjectErr(projectName, repoName)
           idx == GetProjectIdx(cfgProjects, projectName)
       IN  /\ cfgProjects' =
                 IF err # "" THEN cfgProjects
                 ELSE [cfgProjects EXCEPT
                          ![idx].Repositories = Append(@, repoName)]
           /\ Returning("AddRepoToProject", err)
    /\ UNCHANGED catalog

\* RepositoryManager.RemoveRepoFromProject(projectName, repoName): the first
\* occurrence of the name leaves the project's list
RemoveRepoFromProject(projectName, repoName) ==
    /\ phase = "idle"
    /\ LET idx == GetProjectIdx(cfgProjects, projectName)
       IN  IF idx = 0
           THEN /\ Returning("RemoveRepoFromProject", "project not found")
                /\ UNCHANGED cfgProjects
           ELSE IF ~HasRepository(cfgProjects[idx], repoName)
           THEN /\ Returning("RemoveRepoFromProject", "repository not in project")
                /\ UNCHANGED cfgProjects
           ELSE LET list == cfgProjects[idx].Repositories
                    j == CHOOSE k \in 1..Len(list) :
                            /\ list[k] = repoName
                            /\ \A m \in 1..(k - 1) : list[m] # repoName
                IN  /\ cfgProjects' =
                          [cfgProjects EXCEPT ![idx].Repositories = Without(list, j)]
                    /\ Returning("RemoveRepoFromProject", "")
    /\ UNCHANGED catalog

\* the call has returned and the caller makes its next call on the manager
NextCall ==
    /\ phase = "returned"
    /\ ops < MaxOps
    /\ ops' = ops + 1
    /\ phase' = "idle"
    /\ call' = "none"
    /\ callErr' = ""
    /\ repos' = <<>>
    /\ pc' = <<>>
    /\ sem' = 0
    /\ results' = <<>>
    /\ report' = EmptySyncResult
    /\ lockAtCall' = lockFile
    /\ slotWrites' = <<>>
    /\ invoked' = {}
    /\ resolved' = <<>>
    /\ notified' = <<>>
    /\ UNCHANGED <<managerVars, lockFile, uiDone, remote, disk, callVars, streamVars,
                   query, answer, msgChan, pending, exitCode, lockSaved, stream,
                   cfgProjects, sinkErrs>>

\* the repositories and projects the caller passes: new ones, one already
\* declared, one without a name, one without a URL, one listing an unknown
\* repository
AddInputs ==
    {RepoF, RepoA,
     Tagged(Repo("", "https://h/x.git", "git", "", "", ""), <<>>),
     Tagged(Repo("x", "", "git", "", "", ""), <<>>)}

AddProjectInputs ==
    {Project("spare", <<>>), Project("core", <<"a", "b">>),
     Project("ghost", <<"zz">>), Project("", <<>>)}

\* a manager over a validated configuration, its lock file holding an entry
\* for every repository
ConfigInit ==
    /\ SyncInit
    /\ hasLockFile /\ ~locked
    /\ concurrent = DefaultConcurrency
    /\ lockFile = LoadedLockFile(catalog, Names(catalog), Sha1)
    /\ \A n \in AllNames : disk[n] = ""
    /\ catalogAtCall = catalog
    /\ prevRuns = <<>>
    /\ filter = Filter(TRUE, <<>>, <<>>, <<>>)
    /\ target = ""
    /\ StreamIdle
    /\ query = NoQuery
    /\ answer = "none"
    /\ msgChan = <<>>
    /\ pending = <<>>
    /\ exitCode = -1
    /\ lockSaved = FALSE
    /\ stream = <<>>
    /\ cfgProjects = ProjectsOf(catalog)
    /\ ops = 0
    /\ sinkErrs = <<>>

ConfigNext ==
    \/ \E r \in AddInputs : Add(r)
    \/ \E n \in CallNames : Remove(n)
    \/ \E p \in AddProjectInputs : AddProject(p)
    \/ \E p \in CallProjects : RemoveProject(p)
    \/ \E p \in CallProjects, n \in CallNames : AddRepoToProject(p, n)
    \/ \E p \in CallProjects, n \in CallNames : RemoveRepoFromProject(p, n)
    \/ NextCall

ConfigSpec == ConfigInit /\ [][ConfigNext]_vars

----------------------------------------------------------------------------
(* StreamSpec: one transport call followed step by step: the goroutine that
   produces the progress stream, the buffered channel, and a consumer that
   drains the channel to closure *)

Terminal == {"complete", "failed"}

\* the order of the phases in pkg/types
PhaseRank(ph) ==
    CASE ph = "initializing" -> 0
      [] ph = "connecting"   -> 1
      [] ph = "fetching"     -> 2
      [] ph = "checkout"     -> 3
      [] OTHER               -> 4

\* select { case progress <- update: default: }: the event is dropped when
\* the buffer is full
NonBlockingSend(ch, ph) ==
    [enabled |-> TRUE,
     ch |-> IF Len(ch) < ProgressBuffer THEN Append(ch, ph) ELSE ch]

BlockingSendDropsWhenFull(ch, ph) == NonBlockingSend(ch, ph)

\* progress <- update: the goroutine waits until the buffer has room
BlockingSend(ch, ph) ==
    [enabled |-> Len(ch) < ProgressBuffer, ch |-> Append(ch, ph)]

RetryExhaustedEarly(a, retryAttempts) == a >= retryAttempts

\* for attempt := 0; attempt <= h.options.RetryAttempts; attempt++
RetryExhausted(a, retryAttempts) == a > retryAttempts

\* the backend fails the first job.Failures calls and serves the file afterwards
Failing(n) == n <= job.Failures

HTTPJobs ==
    {[Op |-> op, RetryAttempts |-> r, Failures |-> f, MkdirOk |-> m, Ref |-> FALSE] :
        op \in {"http.Download", "http.DownloadWithProgress"},
        r \in 0..MaxRetryAttempts, f \in 0..(MaxRetryAttempts + 1), m \in BOOLEAN}

\* Ref: the repository names a commit or a tag
GitJobs ==
    {[Op |-> op, RetryAttempts |-> 0, Failures |-> 0, MkdirOk |-> TRUE, Ref |-> c] :
        op \in {"git.DownloadWithProgress", "git.UpdateWithProgress"},
        c \in BOOLEAN}

StreamJobs == HTTPJobs \cup GitJobs

WithStream == job.Op # "http.Download"

\* where each call starts
Entry(j) ==
    CASE j.Op = "http.Download"             -> "mkdir"
      [] j.Op = "http.DownloadWithProgress" -> "connecting"
      [] j.Op = "git.DownloadWithProgress"  -> "connecting"
      [] OTHER                              -> "fetchingNote"

StreamInit ==
    /\ SyncInit
    /\ catalog = <<>>
    /\ hasLockFile /\ ~locked
    /\ concurrent = DefaultConcurrency
    /\ DOMAIN lockFile = {}
    /\ \A n \in AllNames : disk[n] = "" /\ remote[n] = Sha1
    /\ catalogAtCall = catalog
    /\ prevRuns = <<>>
    /\ filter = Filter(TRUE, <<>>, <<>>, <<>>)
    /\ target = ""
    /\ ProbeIdle
    /\ job \in StreamJobs
    /\ producer = Entry(job)
    /\ attempt = 0
    /\ attempts = 0
    /\ progress = <<>>
    /\ closes = 0
    /\ received = <<>>
    /\ lines = 0
    /\ ret = ""
    /\ lastErr = NoErr
    /\ surfaced = NoErr

\* the error of the n-th call of downloadFile[WithProgress]
AttemptErr(n) == Err("attempt failed", 0, n)

\* Download: fmt.Errorf("download failed after %d attempts: %w", RetryAttempts+1, lastErr)
DownloadErr(last) == Err("download failed after attempts", job.RetryAttempts + 1, last.cause)

\* DownloadWithProgress: fmt.Errorf("download failed: %w", lastErr)
ProgressErr(last) == Err("download failed", 0, last.cause)

\* the head of the retry loop of DownloadWithProgress for loop variable a
LoopHead(a) ==
    IF RetryExhausted(a, job.RetryAttempts) THEN "sendFailed"
    ELSE IF a > 0 THEN "retryNote"
    ELSE "request"

\* progress <- {Phase: PhaseConnecting, "Connecting..."}
SendConnecting ==
    /\ producer = "connecting"
    /\ BlockingSend(progress, "connecting").enabled
    /\ progress' = BlockingSend(progress, "connecting").ch
    /\ producer' = IF job.Op = "http.DownloadWithProgress" THEN "mkdir"
                   ELSE "fetchingNote"
    /\ UNCHANGED <<job, attempt, attempts, closes, received, lines, ret>>
    /\ UNCHANGED <<lastErr, surfaced>>
    /\ UNCHANGED <<syncVars, callVars, probeVars>>

\* os.MkdirAll(filepath.Dir(destination)): Download returns the error,
\* DownloadWithProgress reports it as a failed event
MkdirAll ==
    /\ producer = "mkdir"
    /\ IF job.MkdirOk
       THEN /\ producer' = IF WithStream THEN LoopHead(0) ELSE "request"
            /\ UNCHANGED <<ret, lastErr, surfaced>>
       ELSE IF WithStream
       THEN /\ producer' = "sendFailed"
            /\ lastErr' = Err("failed to create directory", 0, 0)
            /\ UNCHANGED <<ret, surfaced>>
       ELSE /\ producer' = "done" /\ ret' = "error"
            /\ surfaced' = Err("failed to create directory", 0, 0)
            /\ UNCHANGED lastErr
    /\ UNCHANGED <<job, attempt, attempts, progress, closes, received, lines>>
    /\ UNCHANGED <<syncVars, callVars, probeVars>>

\* Download: one pass of the retry loop around downloadFile
downloadFile ==
    /\ producer = "request"
    /\ job.Op = "http.Download"
    /\ attempts' = attempts + 1
    /\ IF ~Failing(attempts + 1)
       THEN /\ producer' = "done" /\ ret' = "ok" /\ attempt' = attempt
            /\ UNCHANGED <<lastErr, surfaced>>
       ELSE /\ attempt' = attempt + 1
            /\ lastErr' = AttemptErr(attempts + 1)
            /\ IF RetryExhausted(attempt + 1, job.RetryAttempts)
               THEN /\ producer' = "done" /\ ret' = "error"
                    /\ surfaced' = DownloadErr(AttemptErr(attempts + 1))
               ELSE /\ producer' = "request" /\ ret' = ret
                    /\ surfaced' = surfaced
    /\ UNCHANGED <<job, progress, closes, received, lines>>
    /\ UNCHANGED <<syncVars, callVars, probeVars>>

\* DownloadWithProgress, attempt > 0: the "Retrying (k/R)..." event
SendRetrying ==
    /\ producer = "retryNote"
    /\ BlockingSend(progress, "connecting").enabled
    /\ progress' = BlockingSend(progress, "connecting").ch
    /\ producer' = "request"
    /\ UNCHANGED <<job, attempt, attempts, closes, received, lines, ret>>
    /\ UNCHANGED <<lastErr, surfaced>>
    /\ UNCHANGED <<syncVars, callVars, probeVars>>

\* downloadFileWithProgress up to the response: a failing call returns here
\* (request error, status other than 200) when early, after the "Downloading..."
\* event otherwise
downloadFileWithProgress(early) ==
    /\ producer = "request"
    /\ job.Op = "http.DownloadWithProgress"
    /\ attempts' = attempts + 1
    /\ IF Failing(attempts + 1) /\ early
       THEN /\ attempt' = attempt + 1 /\ producer' = LoopHead(attempt + 1)
            /\ lastErr' = AttemptErr(attempts + 1)
       ELSE /\ attempt' = attempt /\ producer' = "fetchingNote"
            /\ lastErr' = lastErr
    /\ surfaced' = surfaced
    /\ UNCHANGED <<job, progress, closes, received, lines, ret>>
    /\ UNCHANGED <<syncVars, callVars, probeVars>>

\* progress <- {Phase: PhaseFetching, "Downloading..." | "Cloning repository..." |
\* "Fetching updates..."}
SendFetching ==
    /\ producer = "fetchingNote"
    /\ BlockingSend(progress, "fetching").enabled
    /\ progress' = BlockingSend(progress, "fetching").ch
    /\ producer' = IF job.Op = "http.DownloadWithProgress" THEN "body" ELSE "spawn"
    /\ UNCHANGED <<job, attempt, attempts, closes, received, lines, ret>>
    /\ UNCHANGED <<lastErr, surfaced>>
    /\ UNCHANGED <<syncVars, callVars, probeVars>>

\* one chunk of the body (HTTP, content length known) or one line of git's
\* progress output: offered to the channel without waiting
ProgressLine ==
    /\ producer \in {"body", "scan"}
    /\ lines < MaxLines
    /\ lines' = lines + 1
    /\ progress' = NonBlockingSend(progress, "fetching").ch
    /\ UNCHANGED <<job, producer, attempt, attempts, closes, received, ret>>
    /\ UNCHANGED <<lastErr, surfaced>>
    /\ UNCHANGED <<syncVars, callVars, probeVars>>

\* downloadFileWithProgress after the response: the body ends (success) or
\* creating, reading or writing fails (back to the retry loop)
BodyEnd ==
    /\ producer = "body"
    /\ IF Failing(attempts)
       THEN /\ attempt' = attempt + 1 /\ producer' = LoopHead(attempt + 1)
            /\ lastErr' = AttemptErr(attempts)
       ELSE /\ attempt' = attempt /\ producer' = "sendComplete"
            /\ lastErr' = lastErr
    /\ surfaced' = surfaced
    /\ UNCHANGED <<job, attempts, progress, closes, received, lines, ret>>
    /\ UNCHANGED <<syncVars, callVars, probeVars>>

\* cmd.StderrPipe() and cmd.Start()
Spawn(ok) ==
    /\ producer = "spawn"
    /\ producer' = IF ok THEN "scan" ELSE "sendFailed"
    /\ lastErr' = IF ok THEN lastErr ELSE Err("failed to start git", 0, 0)
    /\ surfaced' = surfaced
    /\ UNCHANGED <<job, attempt, attempts, progress, closes, received, lines, ret>>
    /\ UNCHANGED <<syncVars, callVars, probeVars>>

\* the scanner runs out and cmd.Wait() returns
Wait(ok) ==
    /\ producer = "scan"
    /\ producer' = IF ~ok THEN "sendFailed"
                   ELSE IF job.Op = "git.UpdateWithProgress" \/ job.Ref
                   THEN "checkoutNote"
                   ELSE "headSHA"
    /\ lastErr' = IF ok THEN lastErr ELSE Err("clone or fetch failed", 0, 0)
    /\ surfaced' = surfaced
    /\ UNCHANGED <<job, attempt, attempts, progress, closes, received, lines, ret>>
    /\ UNCHANGED <<syncVars, callVars, probeVars>>

\* progress <- {Phase: PhaseCheckout}
SendCheckout ==
    /\ producer = "checkoutNote"
    /\ BlockingSend(progress, "checkout").enabled
    /\ progress' = BlockingSend(progress, "checkout").ch
    /\ producer' = "checkoutRef"
    /\ UNCHANGED <<job, attempt, attempts, closes, received, lines, ret>>
    /\ UNCHANGED <<lastErr, surfaced>>
    /\ UNCHANGED <<syncVars, callVars, probeVars>>

\* g.checkoutRef(destination)
CheckoutRefStep(ok) ==
    /\ producer = "checkoutRef"
    /\ producer' = IF ok THEN "headSHA" ELSE "sendFailed"
    /\ lastErr' = IF ok THEN lastErr ELSE Err("failed to checkout", 0, 0)
    /\ surfaced' = surfaced
    /\ UNCHANGED <<job, attempt, attempts, progress, closes, received, lines, ret>>
    /\ UNCHANGED <<syncVars, callVars, probeVars>>

\* g.getHeadSHA(destination)
getHeadSHA(ok) ==
    /\ producer = "headSHA"
    /\ producer' = IF ok THEN "sendComplete" ELSE "sendFailed"
    /\ lastErr' = IF ok THEN lastErr ELSE Err("failed to get HEAD SHA", 0, 0)
    /\ surfaced' = surfaced
    /\ UNCHANGED <<job, attempt, attempts, progress, closes, received, lines, ret>>
    /\ UNCHANGED <<syncVars, callVars, probeVars>>

\* progress <- {Phase: PhaseComplete, Message: sha}; return
SendComplete ==
    /\ producer = "sendComplete"
    /\ BlockingSend(progress, "complete").enabled
    /\ progress' = BlockingSend(progress, "complete").ch
    /\ ret' = "ok"
    /\ producer' = "return"
    /\ UNCHANGED <<job, attempt, attempts, closes, received, lines>>
    /\ UNCHANGED <<lastErr, surfaced>>
    /\ UNCHANGED <<syncVars, callVars, probeVars>>

\* progress <- {Phase: PhaseFailed, Error: err}; return
SendFailed ==
    /\ producer = "sendFailed"
    /\ BlockingSend(progress, "failed").enabled
    /\ progress' = BlockingSend(progress, "failed").ch
    /\ ret' = "error"
    /\ surfaced' = IF lastErr.cause > 0 THEN ProgressErr(lastErr) ELSE lastErr
    /\ lastErr' = lastErr
    /\ producer' = "return"
    /\ UNCHANGED <<job, attempt, attempts, closes, received, lines>>
    /\ UNCHANGED <<syncVars, callVars, probeVars>>

\* defer close(progress)
Close ==
    /\ producer = "return"
    /\ closes' = closes + 1
    /\ producer' = "done"
    /\ UNCHANGED <<job, attempt, attempts, progress, received, lines, ret>>
    /\ UNCHANGED <<lastErr, surfaced>>
    /\ UNCHANGED <<syncVars, callVars, probeVars>>

\* fault injection: a consumer that stops after its first event
ConsumerReturnedAfterFirst == received # <<>>

\* syncRepository has returned out of its loop: the last event it took
\* carried an error (the events that carry one have phase failed)
ConsumerReturned == received # <<>> /\ received[Len(received)] = "failed"

\* for update := range progressCh: the consumer takes the oldest event,
\* until an event carries an error
Receive ==
    /\ WithStream
    /\ ~ConsumerReturned
    /\ progress # <<>>
    /\ received' = Append(received, Head(progress))
    /\ progress' = Tail(progress)
    /\ UNCHANGED <<job, producer, attempt, attempts, closes, lines, ret>>
    /\ UNCHANGED <<lastErr, surfaced>>
    /\ UNCHANGED <<syncVars, callVars, probeVars>>

StreamNext ==
    \/ SendConnecting
    \/ MkdirAll
    \/ downloadFile
    \/ SendRetrying
    \/ \E early \in BOOLEAN : downloadFileWithProgress(early)
    \/ SendFetching
    \/ ProgressLine
    \/ BodyEnd
    \/ \E ok \in BOOLEAN : Spawn(ok)
    \/ \E ok \in BOOLEAN : Wait(ok)
    \/ SendCheckout
    \/ \E ok \in BOOLEAN : CheckoutRefStep(ok)
    \/ \E ok \in BOOLEAN : getHeadSHA(ok)
    \/ SendComplete
    \/ SendFailed
    \/ Close
    \/ Receive

StreamSpec == StreamInit /\ [][StreamNext]_vars

\* the consumer's range loop has ended: the channel is closed and empty
Drained == WithStream /\ closes > 0 /\ progress = <<>>

\* the transport calls with at most one retry
ShortJobs == {j \in StreamJobs : j.RetryAttempts <= 1 /\ j.Failures <= 2}

FairStreamInit == StreamInit /\ job \in ShortJobs

\* a transport call under the scheduling the Go runtime gives: a step that
\* can be taken (by the producer or by the consumer) is eventually taken
FairStreamSpec == FairStreamInit /\ [][StreamNext]_vars /\ WF_vars(StreamNext)

----------------------------------------------------------------------------
(* FileSpec: HTTPDownloader.Download (Update on a downloader whose source is
   set) onto a destination that may hold the file of an earlier download *)

\* how one call of downloadFile can end: the body is written; the request
\* fails or is answered with a status other than 200; os.Create fails; the
\* body breaks off or the file cannot be written or closed
FileOutcomes == {"ok", "requestFail", "createFail", "copyFail"}

\* the destination after one call of downloadFile: os.Create truncates the
\* file that is there, and the copy and close error paths os.Remove it
downloadFileLeaves(head, body, o) ==
    CASE o = "ok"       -> body
      [] o = "copyFail" -> ""
      [] OTHER          -> head

FileJobs ==
    {[Op |-> "http.Update", RetryAttempts |-> r, Failures |-> 0, MkdirOk |-> TRUE,
      Ref |-> FALSE] : r \in 0..MaxRetryAttempts}

\* the destination of b is absent, or holds the file an earlier sync
\* downloaded and recorded in the lock file
FileInit ==
    /\ SyncInit
    /\ catalog = <<RepoA, RepoB, RepoC>>
    /\ hasLockFile
    /\ concurrent = DefaultConcurrency
    /\ IF "b" \in DOMAIN lockFile
       THEN disk["b"] = lockFile["b"].ResolvedSHA
       ELSE disk["b"] = ""
    /\ catalogAtCall = catalog
    /\ prevRuns = <<>>
    /\ filter = Filter(TRUE, <<>>, <<>>, <<>>)
    /\ target = ""
    /\ ProbeIdle
    /\ job \in FileJobs
    /\ producer = "request"
    /\ attempt = 0
    /\ attempts = 0
    /\ progress = <<>>
    /\ closes = 0
    /\ received = <<>>
    /\ lines = 0
    /\ ret = ""
    /\ lastErr = NoErr
    /\ surfaced = NoErr

\* the source serves another body
BodyChanges ==
    /\ producer = "request"
    /\ attempts = 0
    /\ remote["b"] = Sha1
    /\ remote' = [remote EXCEPT !["b"] = Sha2]
    /\ UNCHANGED <<catalog, hasLockFile, lockFile, locked, concurrent, uiDone, disk,
                   phase, call, callErr, repos, pc, sem, results, report,
                   lockAtCall, slotWrites, invoked, resolved, notified>>
    /\ UNCHANGED auxVars

\* Download: one pass of the retry loop around downloadFile, with what the
\* call does to the destination
Redownload(o) ==
    /\ producer = "request"
    /\ job.Op = "http.Update"
    /\ attempts' = attempts + 1
    /\ disk' = [disk EXCEPT !["b"] = downloadFileLeaves(disk["b"], remote["b"], o)]
    /\ IF o = "ok"
       THEN /\ producer' = "done" /\ ret' = "ok" /\ attempt' = attempt
            /\ UNCHANGED <<lastErr, surfaced>>
       ELSE /\ attempt' = attempt + 1
            /\ lastErr' = AttemptErr(attempts + 1)
            /\ IF RetryExhausted(attempt + 1, job.RetryAttempts)
               THEN /\ producer' = "done" /\ ret' = "error"
                    /\ surfaced' = DownloadErr(AttemptErr(attempts + 1))
               ELSE /\ producer' = "request" /\ ret' = ret
                    /\ surfaced' = surfaced
    /\ UNCHANGED <<job, progress, closes, received, lines>>
    /\ UNCHANGED <<catalog, hasLockFile, lockFile, locked, concurrent, uiDone, remote,
                   phase, call, callErr, repos, pc, sem, results, report,
                   lockAtCall, slotWrites, invoked, resolved, notified>>
    /\ UNCHANGED <<callVars, probeVars>>

FileNext ==
    \/ BodyChanges
    \/ \E o \in FileOutcomes : Redownload(o)

FileSpec == FileInit /\ [][FileNext]_vars

----------------------------------------------------------------------------
(* LockSpec: a lock file worked by Update, Remove and Clear and asked
   ShouldUpdate *)

LockNames == {"repo1", "repo2"}

LockRequestedRefs == {"main", "develop", "v1.0.0"}

LockEntries ==
    {NewEntry("https://example.test/r.git", "git", ref, sha) :
        ref \in LockRequestedRefs, sha \in TipShas}

\* lockfile.New() in a process that runs no sync
LockInit ==
    /\ SyncInit
    /\ catalog = <<>>
    /\ hasLockFile /\ ~locked
    /\ concurrent = DefaultConcurrency
    /\ \A n \in AllNames : disk[n] = ""
    /\ AuxInit

\* lf.Update(name, entry)
UpdateEntry(name, entry) ==
    /\ lockAtCall' = lockFile
    /\ lockFile' = LockUpdate(lockFile, name, entry)
    /\ call' = "Update"
    /\ UNCHANGED <<catalog, hasLockFile, locked, concurrent, uiDone, remote, disk, phase,
                   callErr, repos, pc, sem, results, report, slotWrites, invoked,
                   resolved, notified>>
    /\ UNCHANGED auxVars

\* lf.Remove(name)
RemoveEntry(name) ==
    /\ lockAtCall' = lockFile
    /\ lockFile' = LockRemove(lockFile, name)
    /\ call' = "Remove"
    /\ UNCHANGED <<catalog, hasLockFile, locked, concurrent, uiDone, remote, disk, phase,
                   callErr, repos, pc, sem, results, report, slotWrites, invoked,
                   resolved, notified>>
    /\ UNCHANGED auxVars

\* lf.Clear()
Clear ==
    /\ lockAtCall' = lockFile
    /\ lockFile' = LockClear(lockFile)
    /\ call' = "Clear"
    /\ UNCHANGED <<catalog, hasLockFile, locked, concurrent, uiDone, remote, disk, phase,
                   callErr, repos, pc, sem, results, report, slotWrites, invoked,
                   resolved, notified>>
    /\ UNCHANGED auxVars

\* lf.ShouldUpdate(name, requestedRef)
AskShouldUpdate(name, requestedRef) ==
    /\ lockAtCall' = lockFile
    /\ query' = [name |-> name, requestedRef |-> requestedRef]
    /\ answer' = ShouldUpdate(lockFile, name, requestedRef)
    /\ call' = "ShouldUpdate"
    /\ UNCHANGED <<catalog, hasLockFile, lockFile, locked, concurrent, uiDone, remote,
                   disk, phase, callErr, repos, pc, sem, results, report, slotWrites,
                   invoked, resolved, notified>>
    /\ UNCHANGED <<callVars, streamVars, msgChan, pending, exitCode, lockSaved, stream,
                   cfgProjects, ops, sinkErrs>>

LockNext ==
    \/ \E n \in LockNames, e \in LockEntries : UpdateEntry(n, e)
    \/ \E n \in LockNames : RemoveEntry(n)
    \/ Clear
    \/ \E n \in LockNames, ref \in LockRequestedRefs : AskShouldUpdate(n, ref)

LockSpec == LockInit /\ [][LockNext]_vars

----------------------------------------------------------------------------
(* ReportSpec: NewSyncResult applied to a list of operation results *)

OperationResults ==
    {SuccessResult(r, Sha1) : r \in {RepoA, RepoB}} \cup
    {FailedResult(r, "clone failed") : r \in {RepoA, RepoB}}

ResultLists == UNION {[1..k -> OperationResults] : k \in 0..MaxResults}

ReportInit ==
    /\ catalog = <<RepoA, RepoB, RepoC>>
    /\ hasLockFile = TRUE
    /\ locked = FALSE
    /\ lockFile = LoadedLockFile(catalog, {}, Sha1)
    /\ concurrent = DefaultConcurrency
    /\ uiDone = FALSE
    /\ remote = [n \in AllNames |-> Sha1]
    /\ disk = [n \in AllNames |-> ""]
    /\ phase = "idle"
    /\ call = "none"
    /\ callErr = ""
    /\ repos = <<>>
    /\ pc = <<>>
    /\ sem = 0
    /\ results \in ResultLists
    /\ report = EmptySyncResult
    /\ lockAtCall = lockFile
    /\ slotWrites = <<>>
    /\ invoked = {}
    /\ resolved = <<>>
    /\ notified = <<>>
    /\ AuxInit

\* types.NewSyncResult(results, duration)
Summarize ==
    /\ call = "none"
    /\ report' = NewSyncResult(results)
    /\ call' = "NewSyncResult"
    /\ UNCHANGED <<catalog, hasLockFile, lockFile, locked, concurrent, uiDone, remote,
                   disk, phase, callErr, repos, pc, sem, results, lockAtCall,
                   slotWrites, invoked, resolved, notified>>
    /\ UNCHANGED auxVars

ReportNext == Summarize

ReportSpec == ReportInit /\ [][ReportNext]_vars

----------------------------------------------------------------------------
(* SinkSpec: Sync of one repository with every call of m.ui.SendProgress as a
   step of its own, the sink's channel, and a consumer that may never run *)

SendProgressBlocking(ch, msg) ==
    [enabled |-> Len(ch) < SinkBuffer, ch |-> Append(ch, msg)]

\* ProgressManager.SendProgress: select { case pm.msgChan <- msg: default: }
SendProgressTo(ch, msg) ==
    [enabled |-> TRUE, ch |-> IF Len(ch) < SinkBuffer THEN Append(ch, msg) ELSE ch]

RECURSIVE WithLines(_, _)
\* the phases forwarded from a stream that carries n progress lines after
\* its first fetching event
WithLines(notes, n) ==
    IF notes = <<>> THEN <<>>
    ELSE IF Head(notes) = "fetching"
    THEN <<"fetching">> \o [k \in 1..n |-> "fetching"] \o Tail(notes)
    ELSE <<Head(notes)>> \o WithLines(Tail(notes), n)

SinkInit ==
    /\ SyncInit
    /\ catalog = <<RepoF>>
    /\ hasLockFile /\ ~locked
    /\ concurrent = DefaultConcurrency
    /\ DOMAIN lockFile = {}
    /\ AuxInit

\* the transport of task i ends under outcome o after n progress lines: what
\* syncRepository passes to the sink from here to its return
TransportEnds(i, o, n) ==
    /\ phase = "syncing"
    /\ i \in DOMAIN pc
    /\ pc[i] = "transport"
    /\ i \notin DOMAIN pending
    /\ o \in Outcomes(repos[i])
    /\ pending' = (i :> [outcome |-> o,
                         notes |-> WithLines(syncRepository(repos[i], o, TRUE).notes, n)])
                     @@ pending
    /\ UNCHANGED <<syncVars, callVars, streamVars, query, answer, msgChan, exitCode,
                   lockSaved, stream, cfgProjects, ops, sinkErrs>>

\* m.ui.SendProgress(msg) in task i
SendProgress(i) ==
    /\ i \in DOMAIN pending
    /\ pending[i].notes # <<>>
    /\ SendProgressTo(msgChan, Head(pending[i].notes)).enabled
    /\ msgChan' = SendProgressTo(msgChan, Head(pending[i].notes)).ch
    /\ pending' = [pending EXCEPT ![i].notes = Tail(@)]
    /\ UNCHANGED <<syncVars, callVars, streamVars, query, answer, exitCode, lockSaved,
                   stream, cfgProjects, ops, sinkErrs>>

\* processMessages / processMessagesSimple: case msg := <-pm.msgChan
processMessages ==
    /\ msgChan # <<>>
    /\ msgChan' = Tail(msgChan)
    /\ UNCHANGED <<syncVars, callVars, streamVars, query, answer, pending, exitCode,
                   lockSaved, stream, cfgProjects, ops, sinkErrs>>

\* syncRepository of task i returns once its last SendProgress call has
Returns(i) ==
    /\ i \in DOMAIN pending
    /\ pending[i].notes = <<>>
    /\ TaskTransportDone(i, pending[i].outcome)

SinkNext ==
    \/ SyncStart(Filter(TRUE, <<>>, <<>>, <<>>), TRUE)
    \/ \E i \in TaskIds : TaskStart(i)
    \/ \E i \in TaskIds, o \in AllOutcomes, n \in {0, MaxForwarded} : TransportEnds(i, o, n)
    \/ \E i \in TaskIds : SendProgress(i)
    \/ processMessages
    \/ \E i \in TaskIds : Returns(i)
    \/ \E i \in TaskIds : TaskExit(i)
    \/ SyncJoin

\* a runnable goroutine runs and a started transport terminates; nothing is
\* assumed about the sink's consumer
SinkSpec ==
    /\ SinkInit /\ [][SinkNext]_vars
    /\ \A i \in TaskIds : WF_vars(TaskStart(i))
    /\ \A i \in TaskIds :
          WF_vars(\E o \in AllOutcomes, n \in {0, MaxForwarded} : TransportEnds(i, o, n))
    /\ \A i \in TaskIds : WF_vars(SendProgress(i))
    /\ \A i \in TaskIds : WF_vars(Returns(i))
    /\ \A i \in TaskIds : WF_vars(TaskExit(i))
    /\ WF_vars(SyncJoin)

----------------------------------------------------------------------------
(* CommandSpec: the hm sync command, from its call of Sync to the exit code *)

runSyncErrIgnoringFailures(syncErr, saveOk, sr) ==
    IF syncErr # "" THEN syncErr
    ELSE IF ~locked /\ hasLockFile /\ ~saveOk THEN "failed to save lock file"
    ELSE ""

\* runSync after mgr.Sync(filter): the error it returns, "" for nil
\* (saveLockFile returns nil without writing when there is no lock file)
runSyncErr(syncErr, saveOk, sr) ==
    IF syncErr # "" THEN syncErr
    ELSE IF ~locked /\ hasLockFile /\ ~saveOk THEN "failed to save lock file"
    ELSE IF HasFailures(sr) THEN "repositories failed to sync"
    ELSE ""

\* main: os.Exit(1) when Execute returns an error
ExitCodeOf(err) == IF err # "" THEN 1 ELSE 0

\* the filters runSync builds: names, else one project, else one tag, else All
CommandFilters == Filters \ {Filter(FALSE, <<>>, <<>>, <<>>)}

CommandInit ==
    /\ SyncInit
    /\ concurrent = DefaultConcurrency
    /\ AuxInit

\* runSync from the return of mgr.Sync to the exit of the process
runSync(saveOk) ==
    /\ phase = "returned"
    /\ call = "Sync"
    /\ exitCode = -1
    /\ exitCode' = ExitCodeOf(runSyncErr(callErr, saveOk, report))
    /\ lockSaved' = (callErr = "" /\ ~locked /\ hasLockFile /\ saveOk)
    /\ UNCHANGED <<syncVars, callVars, streamVars, query, answer, msgChan, pending,
                   stream, cfgProjects, ops, sinkErrs>>

CommandNext ==
    \/ \E f \in CommandFilters, wdOk \in BOOLEAN : SyncStart(f, wdOk)
    \/ \E i \in TaskIds : TaskStart(i)
    \/ \E i \in TaskIds, o \in AllOutcomes : TaskTransportDone(i, o)
    \/ \E i \in TaskIds : TaskExit(i)
    \/ SyncJoin
    \/ \E saveOk \in BOOLEAN : runSync(saveOk)

CommandSpec == CommandInit /\ [][CommandNext]_vars

----------------------------------------------------------------------------
(* OpsSpec: Add, Remove, Sync and SyncOne called one after the other on a
   manager whose lock file is attached *)

OpsInit ==
    /\ SyncInit
    /\ hasLockFile
    /\ concurrent = DefaultConcurrency
    /\ \A n \in AllNames : disk[n] = ""
    /\ AuxInit

\* the filters OpsSpec passes to Sync: All, or one name
OpsFilters ==
    {Filter(TRUE, <<>>, <<>>, <<>>)} \cup {Filter(FALSE, <<n>>, <<>>, <<>>) : n \in CallNames}

OpsNext ==
    \/ \E f \in OpsFilters : SyncStart(f, TRUE)
    \/ \E i \in TaskIds : TaskStart(i)
    \/ \E i \in TaskIds, o \in {"ok", "fetchFail"} : TaskTransportDone(i, o)
    \/ \E i \in TaskIds : TaskExit(i)
    \/ SyncJoin
    \/ \E n \in CallNames, o \in {"ok", "fetchFail"} : SyncOne(n, TRUE, o)
    \/ \E r \in AddInputs : Add(r)
    \/ \E n \in CallNames : Remove(n)
    \/ NextCall

OpsSpec == OpsInit /\ [][OpsNext]_vars

----------------------------------------------------------------------------
(* DrainSpec: the drain loop of syncRepository applied to a progress stream,
   whatever the stream holds behind an event that carries an error *)

StreamEvents ==
    {Event("fetching", "Receiving objects", ""),
     Event("checkout", "Checking out ref...", ""),
     Event("complete", Sha1, ""),
     Event("complete", Sha2, ""),
     Event("fetching", "", "read error"),
     Event("failed", "", "clone failed")}

EventLists == UNION {[1..k -> StreamEvents] : k \in 0..MaxEvents}

DrainInit ==
    /\ SyncInit
    /\ catalog = <<RepoF>>
    /\ hasLockFile /\ ~locked
    /\ concurrent = DefaultConcurrency
    /\ DOMAIN lockFile = {}
    /\ catalogAtCall = catalog
    /\ prevRuns = <<>>
    /\ filter = Filter(TRUE, <<>>, <<>>, <<>>)
    /\ target = ""
    /\ StreamIdle
    /\ query = NoQuery
    /\ answer = "none"
    /\ msgChan = <<>>
    /\ pending = <<>>
    /\ exitCode = -1
    /\ lockSaved = FALSE
    /\ stream \in EventLists
    /\ cfgProjects = <<>>
    /\ ops = 0
    /\ sinkErrs = <<>>

\* the Error field of the messages the drain loop passes to the sink:
\* CreateProgressMsgWithPercent takes phase, percent and message, no error
ForwardedErrors(events) ==
    [k \in 1..Len(Forwarded(events)) |-> ""]

\* the Error field of the message sent after the loop: CreateErrorMsg carries
\* result.Error, CreateCompletedMsg none
ConcludeErrors(c, drained) ==
    IF drained.err # "" \/ c.panic THEN <<>>
    ELSE IF c.result.Success THEN <<"">>
    ELSE <<c.result.Error>>

\* syncRepository from "Process progress updates" to its return, reading
\* stream from the transport's channel
DrainStream ==
    /\ phase = "idle"
    /\ LET r == catalog[1]
           drained == Drain(stream, "")
           c == Conclude(r, LockedTarget(r).sha, drained, disk[r.Name], TRUE)
       IN  /\ repos' = <<r>>
           /\ results' = <<c.result>>
           /\ notified' = <<PreflightNotes(r, TRUE) \o Forwarded(stream)
                              \o ConcludeNotes(c, drained)>>
           /\ sinkErrs' = <<"">> \o ForwardedErrors(stream) \o ConcludeErrors(c, drained)
           /\ resolved' = <<drained.sha>>
           /\ phase' = IF c.panic THEN "crashed" ELSE "returned"
    /\ call' = "syncRepository"
    /\ UNCHANGED <<catalog, hasLockFile, lockFile, locked, concurrent, uiDone, remote,
                   disk, callErr, pc, sem, report, lockAtCall, slotWrites, invoked>>
    /\ UNCHANGED <<callVars, streamVars, query, answer, msgChan, pending, exitCode,
                   lockSaved, stream, cfgProjects, ops>>

DrainNext == DrainStream

DrainSpec == DrainInit /\ [][DrainNext]_vars

----------------------------------------------------------------------------
(* Properties *)

\* tasks holding a permit: inside syncRepository, or past it and not yet released
Holding == {i \in DOMAIN pc : pc[i] \in {"transport", "finished"}}

\* tasks whose transport operation is in flight
InFlight == {i \in DOMAIN pc : pc[i] = "transport"}

\* C1: at every instant of a Sync, the number of tasks that hold a permit and
\* are inside syncRepository is at most the configured concurrency N, and
\* N >= 1: it is the default 4 unless WithConcurrency set a positive value.
C1_BoundedParallelism ==
    /\ concurrent >= 1
    /\ concurrent \in {DefaultConcurrency} \cup 1..MaxConcurrency
    /\ Cardinality(Holding) <= concurrent
    /\ phase = "syncing" => sem = Cardinality(Holding)

\* C1 witness: N transports in flight and a further task kept waiting
C1_Witness ==
    /\ phase = "syncing"
    /\ Cardinality(InFlight) = concurrent
    /\ \E i \in DOMAIN pc : pc[i] = "waiting"

\* C2: once Sync has started its tasks, it eventually returns a report with
\* one result per requested repository and counts that match the results,
\* whatever the other tasks' outcomes are.
C2_SyncReturnsFullReport ==
    [](phase = "syncing" =>
         <>(/\ phase = "returned"
            /\ report.TotalRepos = Len(repos)
            /\ Len(report.Results) = Len(repos)
            /\ report.SuccessCount + report.FailureCount = Len(repos)))

\* the lock entry of a name, <<>> when there is none
EntryOf(lf, name) == IF name \in DOMAIN lf THEN lf[name] ELSE <<>>

\* C3: a repository whose result is a failure keeps the lock entry it had
\* before the call (or keeps having none), and an entry that differs from the
\* one before the call holds the reference of a successful result.
C3_FailedSyncKeepsLock ==
    /\ \A i \in DOMAIN results :
          (slotWrites[i] = 1 /\ ~results[i].Success) =>
             EntryOf(lockFile, repos[i].Name) = EntryOf(lockAtCall, repos[i].Name)
    /\ \A n \in DOMAIN lockFile :
          EntryOf(lockFile, n) # EntryOf(lockAtCall, n) =>
             \E i \in DOMAIN results :
                /\ results[i].Success
                /\ results[i].RepoName = n
                /\ results[i].CommitSHA = lockFile[n].ResolvedSHA

\* C3 witness: a call that wrote the lock file has returned, and one of its
\* failed repositories had an entry before
C3_Witness ==
    /\ phase = "returned"
    /\ lockFile # lockAtCall
    /\ \E i \in DOMAIN results :
          /\ ~results[i].Success
          /\ repos[i].Name \in DOMAIN lockAtCall

\* the reference the specification says is recorded: commit, else tag, else
\* branch, else the default branch
RecordedRef(r) ==
    CASE r.Commit # "" -> r.Commit
      [] r.Commit = "" /\ r.Tag # "" -> r.Tag
      [] r.Commit = "" /\ r.Tag = "" /\ r.Branch # "" -> r.Branch
      [] OTHER -> "main"

\* C4: after a non-locked Sync or SyncOne with a lock file attached, the entry
\* of every repository with a successful result holds the repository's URL and
\* type, its requested reference by priority, and the result's resolved reference.
C4_SuccessfulSyncRecorded ==
    (phase = "returned" /\ hasLockFile /\ ~locked) =>
       \A i \in DOMAIN results :
          results[i].Success =>
             /\ repos[i].Name \in DOMAIN lockFile
             /\ lockFile[repos[i].Name] =
                   [URL |-> repos[i].URL, Type |-> repos[i].Type,
                    RequestedRef |-> RecordedRef(repos[i]),
                    ResolvedSHA |-> results[i].CommitSHA]
             /\ results[i].CommitSHA # ""

\* C4 witness: a repository with commit, tag and branch all set succeeded
C4_Witness ==
    /\ phase = "returned" /\ hasLockFile /\ ~locked
    /\ \E i \in DOMAIN results :
          /\ results[i].Success
          /\ repos[i].Commit # "" /\ repos[i].Tag # "" /\ repos[i].Branch # ""

\* C5: within a Sync the lock file differs from what it was at the call only
\* once every task has finished; no task writes it.
C5_LockWrittenAfterJoin ==
    (call = "Sync" /\ lockFile # lockAtCall) =>
       /\ phase = "returned"
       /\ \A i \in DOMAIN pc : pc[i] = "done"
       /\ \A i \in DOMAIN slotWrites : slotWrites[i] = 1

\* C5 witness: a Sync of several repositories has written the lock file
C5_Witness ==
    /\ call = "Sync"
    /\ lockFile # lockAtCall
    /\ Len(repos) > 1

\* C6: every result slot is written at most once, only by the task of the same
\* index, and exactly once by the time that task is over; the report Sync
\* returns lists at position i the outcome of the i-th requested repository.
C6_SlotsWrittenOnceInOrder ==
    /\ \A i \in DOMAIN slotWrites :
          /\ slotWrites[i] <= 1
          /\ slotWrites[i] = 1 <=> pc[i] \in {"finished", "done"}
          /\ slotWrites[i] = 1 => results[i].RepoName = repos[i].Name
          /\ slotWrites[i] = 0 => results[i] = ZeroResult
    /\ (phase = "returned" /\ call = "Sync") =>
          /\ Len(report.Results) = Len(repos)
          /\ \A i \in DOMAIN repos :
                /\ report.Results[i].RepoName = repos[i].Name
                /\ report.Results[i].RepoURL = repos[i].URL

\* C6 witness: the third task has stored its result while the first has not
C6_Witness ==
    /\ phase = "syncing"
    /\ Len(repos) = 3
    /\ slotWrites[3] = 1
    /\ slotWrites[1] = 0

C8_LockedMismatchFails ==
    \A i \in DOMAIN repos :
       (/\ locked /\ hasLockFile
        /\ repos[i].Name \in DOMAIN lockAtCall
        /\ lockAtCall[repos[i].Name].ResolvedSHA # ""
        /\ resolved[i] # ""
        /\ resolved[i] # lockAtCall[repos[i].Name].ResolvedSHA) =>
          /\ pc[i] \in {"finished", "done"}
          /\ ~results[i].Success
          /\ results[i].Error = "SHA mismatch"
          /\ repos[i].Name \in DOMAIN lockFile
          /\ lockFile[repos[i].Name].ResolvedSHA =
                lockAtCall[repos[i].Name].ResolvedSHA

\* C9: a Sync or SyncOne on a manager in locked mode never changes the lock
\* file, whatever the outcomes.
C9_LockedNeverWrites ==
    locked => lockFile = lockAtCall

\* C9 witness: a locked call on a manager with a lock file has returned with
\* a successful result whose entry a non-locked call would have rewritten
C9_Witness ==
    /\ locked /\ hasLockFile
    /\ phase = "returned"
    /\ \E i \in DOMAIN results :
          /\ results[i].Success
          /\ EntryFor(results[i]) # EntryOf(lockFile, results[i].RepoName)

\* C10: after a locked sync whose transport ran to completion, the working
\* copy of a repository with a lock entry is at the reference the entry holds.
C10_LockedSyncReachesLockedCommit ==
    \A i \in DOMAIN repos :
       (/\ locked /\ hasLockFile
        /\ repos[i].Name \in DOMAIN lockAtCall
        /\ lockAtCall[repos[i].Name].ResolvedSHA \in TipShas
        /\ resolved[i] # "") =>
          disk[repos[i].Name] = lockAtCall[repos[i].Name].ResolvedSHA

\* the elements of a list
Elems(seq) == {seq[k] : k \in 1..Len(seq)}

\* the filter selects by name, project or tag (not All, not the empty filter)
Selective(f) ==
    ~f.All /\ (Len(f.Names) > 0 \/ Len(f.Projects) > 0 \/ Len(f.Tags) > 0)

\* the declared projects and the tags in use
DeclaredProjects == {ProjectsOf(catalog)[k].Name : k \in 1..Len(ProjectsOf(catalog))}
TagsInUse == UNION {Elems(catalog[i].Tags) : i \in 1..Len(catalog)}

\* the names a selective filter asks for: the named repositories, the members
\* of the named projects, the repositories carrying one of the tags
AskedNames(f) ==
    Elems(f.Names)
    \cup {n \in Names(catalog) :
            \E k \in 1..Len(ProjectsOf(catalog)) :
               /\ ProjectsOf(catalog)[k].Name \in Elems(f.Projects)
               /\ n \in Elems(ProjectsOf(catalog)[k].Repositories)}
    \cup {catalog[i].Name : i \in {j \in 1..Len(catalog) :
                                     Elems(catalog[j].Tags) \cap Elems(f.Tags) # {}}}

\* the filter resolves to an empty repository set
ResolvesEmpty(f) ==
    IF Selective(f)
    THEN /\ Elems(f.Names) \subseteq Names(catalog)
         /\ Elems(f.Projects) \subseteq DeclaredProjects
         /\ AskedNames(f) = {}
    ELSE catalog = <<>>

\* C12: a Sync whose filter resolves to an empty repository set returns a
\* report with TotalRepos = 0, SuccessCount = 0 and FailureCount = 0, starts
\* no task and leaves the lock file as it was.
C12_EmptySelectionIsNoop ==
    (phase # "idle" /\ callErr = "" /\ ResolvesEmpty(filter)) =>
       /\ phase = "returned"
       /\ report.TotalRepos = 0 /\ report.SuccessCount = 0 /\ report.FailureCount = 0
       /\ repos = <<>> /\ pc = <<>> /\ invoked = {} /\ notified = <<>>
       /\ lockFile = lockAtCall
       /\ ~uiDone

\* C12 witness: a project without members was selected from a catalog whose
\* repositories all have lock entries
C12_Witness ==
    /\ phase = "returned" /\ callErr = ""
    /\ Selective(filter) /\ ResolvesEmpty(filter)
    /\ Len(catalog) > 1
    /\ DOMAIN lockFile = Names(catalog)

\* C17: name-based selection: when a name of Filter.Names is not in the
\* catalog, Sync returns an error for the whole call, no task starts and the
\* lock file is not written, also when other names of the filter are valid.
C17_UnknownNameFailsCall ==
    (phase # "idle" /\ ~filter.All /\ ~(Elems(filter.Names) \subseteq Names(catalog))) =>
       /\ phase = "returned"
       /\ call = "Sync"
       /\ callErr \in {"repository not found", "failed to create work directory"}
       /\ repos = <<>> /\ pc = <<>> /\ invoked = {} /\ notified = <<>>
       /\ results = <<>>
       /\ lockFile = lockAtCall

\* C17 witness: a call with one valid and one unknown name failed
C17_Witness ==
    /\ phase = "returned"
    /\ callErr = "repository not found"
    /\ Elems(filter.Names) \cap Names(catalog) # {}
    /\ ~(Elems(filter.Names) \subseteq Names(catalog))

\* C18: a Sync whose filter selects an undeclared project or a tag no
\* repository carries returns an error for the whole call and starts no task.
C18_UnknownProjectOrTagFailsCall ==
    (/\ phase # "idle" /\ ~filter.All
     /\ \/ ~(Elems(filter.Projects) \subseteq DeclaredProjects)
        \/ ~(Elems(filter.Tags) \subseteq TagsInUse)) =>
       /\ phase = "returned"
       /\ callErr # ""
       /\ pc = <<>>

\* C19: getRepositories returns the whole catalog for All or the empty
\* filter; otherwise the repositories named, in the named projects or
\* carrying one of the tags, each exactly once.
C19_SelectionIsUnion ==
    (phase # "idle" /\ callErr = "") =>
       IF Selective(filter)
       THEN /\ {repos[i].Name : i \in DOMAIN repos} = AskedNames(filter)
            /\ Len(repos) = Cardinality(AskedNames(filter))
            /\ \A i \in DOMAIN repos : \E j \in 1..Len(catalog) : repos[i] = catalog[j]
       ELSE repos = catalog

\* C19 witness: repository b was selected by name, by project and by tag
C19_Witness ==
    /\ phase = "syncing"
    /\ ~filter.All
    /\ "b" \in Elems(filter.Names)
    /\ "core" \in Elems(filter.Projects)
    /\ "fw" \in Elems(filter.Tags)
    /\ Len(repos) = 2

\* C20: Remove(name) of a catalog repository takes it out of the catalog and
\* takes its entry out of the lock file, and leaves every other repository
\* and entry as they were; for a name that is not in the catalog it returns
\* an error and the lock file stays as it was.
C20_RemoveDropsLockEntry ==
    (call = "Remove" /\ phase = "returned") =>
       IF target \in Names(catalogAtCall)
       THEN /\ callErr = ""
            /\ catalog = SelectSeq(catalogAtCall, LAMBDA r : r.Name # target)
            /\ Len(catalog) = Len(catalogAtCall) - 1
            /\ target \notin DOMAIN lockFile
            /\ DOMAIN lockFile = (DOMAIN lockAtCall) \ {target}
            /\ \A n \in DOMAIN lockFile : lockFile[n] = lockAtCall[n]
       ELSE /\ callErr = "repository not found"
            /\ catalog = catalogAtCall
            /\ lockFile = lockAtCall

\* C20 witness: a repository with a lock entry was removed next to another
\* one whose entry stays
C20_Witness ==
    /\ call = "Remove" /\ phase = "returned" /\ callErr = ""
    /\ target \in DOMAIN lockAtCall
    /\ DOMAIN lockFile # {}

\* C11: when a run follows a run that synced a repository successfully, it
\* syncs that repository successfully again and resolves the same reference
\* (sources unchanged, transports healthy), for a git and for an http repository.
C11_SecondSyncSucceedsAgain ==
    (Len(prevRuns) > 0 /\ phase = "returned") =>
       \A i \in DOMAIN results :
          \A j \in DOMAIN prevRuns[Len(prevRuns)].results :
             LET before == prevRuns[Len(prevRuns)].results[j]
             IN  (before.RepoName = repos[i].Name /\ before.Success) =>
                    /\ results[i].Success
                    /\ results[i].CommitSHA = before.CommitSHA

\* C15: among the phases one syncRepository call passes to the progress sink
\* for its repository, nothing follows a "complete" or a "failed".
C15_TerminalNotificationIsLast ==
    \A i \in DOMAIN notified :
       \A k \in DOMAIN notified[i] :
          notified[i][k] \in {"complete", "failed"} => k = Len(notified[i])

\* C13: with retryAttempts = R a plain-file download (Download or
\* DownloadWithProgress) makes at most R + 1 attempts; it ends in success right
\* after the first attempt the backend does not fail (Failures + 1 attempts, so
\* 3 when the backend fails twice and R = 3) and no attempt follows; a backend
\* that fails every attempt yields failure after exactly R + 1 attempts.
C13_RetryAttempts ==
    job.Op \in {"http.Download", "http.DownloadWithProgress"} =>
       /\ attempts <= job.RetryAttempts + 1
       /\ ret = "ok" => attempts = job.Failures + 1
       /\ (producer = "done" /\ job.MkdirOk) =>
             IF job.Failures <= job.RetryAttempts
             THEN ret = "ok" /\ attempts = job.Failures + 1
             ELSE ret = "error" /\ attempts = job.RetryAttempts + 1

C13_Witness ==
    /\ job.Op = "http.DownloadWithProgress"
    /\ job.RetryAttempts = 3 /\ job.Failures = 2
    /\ producer = "done" /\ ret = "ok" /\ attempts = 3

\* C14: a progress stream drained to closure ends with an event whose phase is
\* complete or failed, no earlier event has such a phase, and the channel is
\* closed exactly once, whichever events were dropped on a full buffer.
C14_StreamEndsWithTerminal ==
    /\ closes <= 1
    /\ (WithStream /\ producer = "done") => closes = 1
    /\ Drained =>
          /\ received # <<>>
          /\ received[Len(received)] \in Terminal
          /\ \A k \in 1..(Len(received) - 1) : received[k] \notin Terminal

C14_Witness ==
    /\ Drained
    /\ job.Op = "git.DownloadWithProgress"
    /\ lines = MaxLines
    /\ Len(received) < lines + 3
    /\ received[Len(received)] = "complete"

\* C16: the phases read off one progress stream never move backwards in
\* connecting -> fetching -> checkout -> {complete | failed}.
C16_PhasesNeverMoveBack ==
    \A k \in 1..(Len(received) - 1) :
       PhaseRank(received[k]) <= PhaseRank(received[k + 1])

\* C21: ShouldUpdate(name, requestedRef) answers true exactly when the lock
\* file has no entry for name or the entry's requested reference differs from
\* requestedRef, and it leaves the lock file as it was.
C21_ShouldUpdateAnswer ==
    call = "ShouldUpdate" =>
       /\ lockFile = lockAtCall
       /\ answer \in BOOLEAN
       /\ answer <=> (\/ query.name \notin DOMAIN lockFile
                      \/ lockFile[query.name].RequestedRef # query.requestedRef)

C21_Witness ==
    /\ call = "ShouldUpdate"
    /\ query.name \in DOMAIN lockFile
    /\ lockFile[query.name].RequestedRef # query.requestedRef
    /\ answer = TRUE
    /\ DOMAIN lockFile = LockNames

\* C22: NewSyncResult(results) has TotalRepos = len(results), SuccessCount =
\* the number of results with Success set, SuccessCount + FailureCount =
\* TotalRepos, and HasFailures is true exactly when some result failed
\* (FailureCount > 0), so false for the empty list.
C22_ReportCounts ==
    call = "NewSyncResult" =>
       /\ report.TotalRepos = Len(results)
       /\ report.SuccessCount = Cardinality({i \in DOMAIN results : results[i].Success})
       /\ report.SuccessCount + report.FailureCount = report.TotalRepos
       /\ HasFailures(report) <=> report.FailureCount > 0
       /\ HasFailures(report) <=> (\E i \in DOMAIN results : ~results[i].Success)
       /\ report.Results = results

C22_Witness ==
    /\ call = "NewSyncResult"
    /\ Len(results) = MaxResults
    /\ report.SuccessCount = 1
    /\ report.FailureCount = MaxResults - 1
    /\ HasFailures(report)

\* C23: a Sync whose tasks have started returns, with one result per task
\* decided by the transport's outcome alone, even when nothing drains the
\* sink: SendProgress never makes a task wait.
C23_SyncReturnsWithoutConsumer ==
    (phase = "syncing") ~>
       (/\ phase = "returned"
        /\ \A i \in DOMAIN results :
              /\ results[i].RepoName = repos[i].Name
              /\ results[i].Success <=> pending[i].outcome = "ok")

C23_Witness ==
    /\ phase = "returned"
    /\ Len(msgChan) = SinkBuffer
    /\ msgChan[SinkBuffer] # "complete"
    /\ results[1].Success

\* C24: hm sync exits non-zero whenever the report of its Sync has failures,
\* locked or not, and exits zero when every repository succeeded and the lock
\* file was saved.
C24_ExitCodeReflectsFailures ==
    (exitCode # -1 /\ callErr = "") =>
       /\ HasFailures(report) => exitCode # 0
       /\ (~HasFailures(report) /\ lockSaved) => exitCode = 0

C24_Witness ==
    /\ exitCode = 1
    /\ locked
    /\ callErr = ""
    /\ report.FailureCount = 1
    /\ report.SuccessCount > 0

\* the revision a reference name stands for at a source whose branches are
\* at tip: the pin "c0ffee", the tag "v1", or a branch
RefTarget(ref, tip) ==
    IF ref = "c0ffee" THEN ShaPin ELSE IF ref = "v1" THEN ShaTag ELSE tip

\* C25: a successful non-locked sync of a git repository leaves the working
\* copy at the reference GetEffectiveRef names (commit, else tag, else branch,
\* else the configured default branch), the reference the lock file records.
C25_WorkingCopyAtEffectiveRef ==
    (phase = "returned" /\ ~locked) =>
       \A i \in DOMAIN results :
          (repos[i].Type = "git" /\ results[i].Success) =>
             LET ref == GetEffectiveRef(repos[i], DefaultBranch)
                 name == repos[i].Name
             IN  /\ disk[name] = RefTarget(ref, remote[name])
                 /\ hasLockFile => (/\ name \in DOMAIN lockFile
                                    /\ lockFile[name].RequestedRef = ref)

\* C26: a destination that did not exist before a non-locked sync exists
\* afterwards only when the repository's fetch succeeded: a failed Download
\* leaves no destination behind.
C26_FailedFetchLeavesNoDestination ==
    [][\A n \in AllNames :
          (~locked /\ phase' # "crashed" /\ disk[n] = "" /\ disk'[n] # "") =>
             \E i \in DOMAIN results' : repos'[i].Name = n /\ results'[i].Success]_vars

\* C27: when the plain-file backend has used up its attempts, the error it
\* surfaces (returned by Download, or carried by the failed event of
\* DownloadWithProgress) wraps the error of the last attempt and states the
\* number of attempts made.
C27_ExhaustionErrorHasCount ==
    (job.Op \in {"http.Download", "http.DownloadWithProgress"}
       /\ job.MkdirOk /\ ret = "error") =>
       /\ surfaced.cause = attempts
       /\ surfaced.attempts = attempts

\* C30: the stream of a git clone or update of a repository with neither tag
\* nor commit set contains no checkout event.
C30_NoCheckoutWithoutSelector ==
    (job.Op \in {"git.DownloadWithProgress", "git.UpdateWithProgress"} /\ ~job.Ref) =>
       \A k \in DOMAIN received : received[k] # "checkout"

\* the position of the first event of the stream that carries an error, 0 if none
FirstError(events) ==
    IF \E k \in DOMAIN events : events[k].Error # ""
    THEN CHOOSE k \in DOMAIN events :
            /\ events[k].Error # ""
            /\ \A j \in 1..(k - 1) : events[j].Error = ""
    ELSE 0

\* C28: when the stream holds an event carrying an error, the task's result is
\* a failure with the error of the first such event, and the sink is passed
\* the events up to and including that one and nothing behind it.
C28_FirstErrorEndsTask ==
    (call = "syncRepository" /\ FirstError(stream) # 0) =>
       LET k == FirstError(stream)
       IN  /\ ~results[1].Success
           /\ results[1].Error = stream[k].Error
           /\ results[1].CommitSHA = ""
           /\ notified[1] = <<"initializing">> \o [j \in 1..k |-> stream[j].Phase]

C28_Witness ==
    /\ call = "syncRepository"
    /\ Len(stream) = MaxEvents
    /\ stream[1].Error = "read error"
    /\ stream[2].Error = "clone failed"
    /\ stream[3].Phase = "complete"
    /\ results[1].Error = "read error"

\* C29: a SyncOne that reaches the transport with the destination present and
\* the source healthy re-synchronizes the destination: the repository's result
\* is a success and the destination holds what the source holds, for a git
\* repository and for an http repository alike.
C29_UpdateResyncsExisting ==
    [][(/\ phase = "idle" /\ phase' = "returned"
        /\ call' = "SyncOne" /\ callErr' = ""
        /\ invoked' = {1}
        /\ disk[repos'[1].Name] # "")
          => /\ results'[1].Success
             /\ disk'[repos'[1].Name] # ""
             /\ results'[1].CommitSHA = disk'[repos'[1].Name]]_vars

\* C31: every result syncRepository returned (every written slot) has
\* Success true exactly when its Error is nil.
C31_SuccessIffNoError ==
    \A i \in DOMAIN results :
       (i \in DOMAIN slotWrites /\ slotWrites[i] > 0) =>
          (results[i].Success <=> results[i].Error = "")

C31_Witness ==
    /\ phase = "returned"
    /\ \E i \in DOMAIN results :
          slotWrites[i] > 0 /\ results[i].Success /\ results[i].Error = ""
    /\ \E i \in DOMAIN results :
          slotWrites[i] > 0 /\ ~results[i].Success /\ results[i].Error = "SHA mismatch"

\* what each criterion of a filter selects when taken alone
ByNames(f) == Elems(f.Names)
ByProjects(f) == AskedNames(Filter(FALSE, <<>>, f.Projects, <<>>))
ByTags(f) == AskedNames(Filter(FALSE, <<>>, <<>>, f.Tags))

\* the filter carries more than one of Names, Projects and Tags, All unset
MultiCriteria(f) ==
    /\ ~f.All
    /\ \/ Len(f.Names) > 0 /\ Len(f.Projects) > 0
       \/ Len(f.Names) > 0 /\ Len(f.Tags) > 0
       \/ Len(f.Projects) > 0 /\ Len(f.Tags) > 0

ResolvedNames == {repos[i].Name : i \in DOMAIN repos}

\* C32 as stated: a filter carrying several criteria resolves to what a
\* single one of them selects.
C32_SingleCriterionDecides ==
    (phase # "idle" /\ callErr = "" /\ MultiCriteria(filter)) =>
       \/ ResolvedNames = ByNames(filter)
       \/ ResolvedNames = ByProjects(filter)
       \/ ResolvedNames = ByTags(filter)

\* C32 amended: a filter carrying several criteria resolves to the union of
\* what each of its criteria selects, so every criterion present contributes.
C32_CriteriaCombine ==
    (phase # "idle" /\ callErr = "" /\ MultiCriteria(filter)) =>
       /\ ByNames(filter) \subseteq ResolvedNames
       /\ ByProjects(filter) \subseteq ResolvedNames
       /\ ByTags(filter) \subseteq ResolvedNames
       /\ ResolvedNames \subseteq ByNames(filter) \cup ByProjects(filter) \cup ByTags(filter)

\* C32 witness: a filter by name and by tag resolved to more than any one of
\* its criteria selects
C32_Witness ==
    /\ phase = "syncing"
    /\ MultiCriteria(filter)
    /\ ResolvedNames # ByNames(filter)
    /\ ResolvedNames # ByProjects(filter)
    /\ ResolvedNames # ByTags(filter)
    /\ ByNames(filter) # {} /\ ByTags(filter) # {}

\* C33: on a manager that is called repeatedly, every Sync over a non-empty
\* repository set whose tasks have all finished returns its report: the call
\* never ends in the panic of closing the done channel a second time.
C33_RepeatedSyncReturns ==
    (call = "Sync" /\ repos # <<>> /\ Joined) => phase # "crashed"

\* C34: after every sequence of Add, Remove, AddProject, RemoveProject,
\* AddRepoToProject and RemoveRepoFromProject on a validated configuration,
\* the configuration still passes ValidateConfig and every declared project
\* still expands.
C34_MutationsKeepConfigValid ==
    /\ ValidateConfig(catalog, cfgProjects)
    /\ \A k \in 1..Len(cfgProjects) :
          GetRepositoriesForProject(cfgProjects, cfgProjects[k].Name).err = ""

\* C35: through every sequence of Add, Remove, Sync and SyncOne, every entry
\* of the lock file names a repository of the catalog.
C35_NoOrphanedLocks == DOMAIN lockFile \subseteq Names(catalog)

\* C35 witness: after earlier calls, Remove took a repository and its lock
\* entry away and left another entry
C35_Witness ==
    /\ ops > 0
    /\ call = "Remove" /\ callErr = ""
    /\ DOMAIN lockAtCall # DOMAIN lockFile
    /\ DOMAIN lockFile # {}

\* C36: in locked mode, whatever the manager was built with, a successful
\* result has a lock entry whose resolved reference is the result's CommitSHA.
C36_LockedSuccessHasMatchingEntry ==
    locked =>
       \A i \in DOMAIN results :
          (slotWrites[i] > 0 /\ results[i].Success) =>
             /\ repos[i].Name \in DOMAIN lockFile
             /\ lockFile[repos[i].Name].ResolvedSHA = results[i].CommitSHA

\* C37: no task ends in a panic: whatever the length of the locked and the
\* resolved reference, syncRepository returns a result.
C37_NoTaskPanics ==
    \A i \in DOMAIN pc : pc[i] # "panicked"

\* C38: when syncRepository returns a failed result with a sink attached, the
\* last message it passed to the sink has phase failed and carries the
\* result's error.
C38_FailureReachesSink ==
    (call = "syncRepository" /\ phase = "returned" /\ ~results[1].Success) =>
       /\ notified[1][Len(notified[1])] = "failed"
       /\ sinkErrs[Len(sinkErrs)] = results[1].Error

\* C39: every producer that feeds a progress stream ends with its channel
\* closed, and the consumer's loop ends (the stream drained to closure, or the
\* loop left on an event carrying an error), also when the buffer was full.
C39_ProducerAndConsumerEnd ==
    WithStream ~> (/\ producer = "done" /\ closes = 1
                   /\ (Drained \/ ConsumerReturned))

\* C39 witness: the producer waited on a full buffer before its failed event,
\* and ended after the consumer had left the loop on that event
C39_Witness ==
    /\ producer = "done" /\ closes = 1
    /\ ConsumerReturned
    /\ lines = MaxLines
    /\ Len(received) >= ProgressBuffer

\* C40: a Download that fails onto a destination holding an earlier download
\* leaves that file in place: the destination still has the digest the lock
\* file records for it.
C40_FailedRedownloadKeepsFile ==
    (ret = "error" /\ "b" \in DOMAIN lockFile) =>
       disk["b"] = lockFile["b"].ResolvedSHA

====
